---- MODULE Spec2Model ----
(***************************************************************************)
(* Balance-sheet valuation of BalanceSheetView                             *)
(* (src/components/Navbar.tsx, lines 191-424): the snapshot filter, the    *)
(* period key resolver, calculateDynamicValue, the memoised values the     *)
(* component derives from its ledger, its items and its snapshot choice,   *)
(* cash and the totals, the handlers that change the item list, the edit   *)
(* form with its link editor, and the reference calculation of the test    *)
(* suite (src/__tests__/BalanceSheetCalculation.test.ts, lines 37-95).     *)
(*                                                                         *)
(* Representation.                                                         *)
(*  - A JavaScript string (category, description, linkedKeywords) is a     *)
(*    sequence of one-character strings.                                   *)
(*  - A date string "YYYY-MM-DD" is the sequence <<y, m, d>>; the empty    *)
(*    date string "" is <<>>.  JavaScript's string comparison of two such  *)
(*    zero-padded strings is the lexicographic comparison of the fields.   *)
(*    A string that is not a date has fewer than three fields.             *)
(*  - The id of an item is a positive number; 0 stands for a form that     *)
(*    has no id.                                                           *)
(*  - An optional number is [def |-> BOOLEAN, v |-> Int]; undefined is     *)
(*    [def |-> FALSE, v |-> 0].                                            *)
(*  - Amounts are integers (exact arithmetic; the rounding of IEEE         *)
(*    doubles is not modelled).                                            *)
(***************************************************************************)
EXTENDS Integers, Sequences, FiniteSets, TLC

VARIABLES
  transactions,         \* the ledger prop of BalanceSheetView
  items,                \* useState items
  selectedSnapshot,     \* useState selectedSnapshot: "today" or a year
  tzWest,               \* the runtime's timezone is west of UTC
  snapshotTransactions, \* useMemo snapshotTransactions
  processedItems,       \* useMemo processedItems
  startingBalance,      \* useState startingBalance
  editItem,             \* useState editItem: the contents of the edit form
  isAdding              \* useState isAdding: the edit form is open

vars == <<transactions, items, selectedSnapshot, tzWest,
          snapshotTransactions, processedItems, startingBalance,
          editItem, isAdding>>

----------------------------------------------------------------------------
(* JavaScript values *)

Undefined == [def |-> FALSE, v |-> 0]

Num(n) == [def |-> TRUE, v |-> n]

\* ToBoolean of an optional number: undefined and 0 are falsy.
Truthy(x) == x.def /\ x.v # 0

\* x || 0
OrZero(x) == IF Truthy(x) THEN x.v ELSE 0

Min(a, b) == IF a <= b THEN a ELSE b

Max(a, b) == IF a >= b THEN a ELSE b

\* Math.ceil(m / 3) for a month number m >= 1
CeilDiv3(m) == (m + 2) \div 3

----------------------------------------------------------------------------
(* Strings *)

\* String.prototype.toLowerCase, one character
LowerChar(c) ==
  CASE c = "A" -> "a"
    [] c = "B" -> "b"
    [] c = "C" -> "c"
    [] c = "L" -> "l"
    [] OTHER -> c

toLowerCase(s) == [i \in 1..Len(s) |-> LowerChar(s[i])]

\* String.prototype.includes: k occurs in s as a substring
includes(s, k) ==
  \E i \in 0..(Len(s) - Len(k)) : SubSeq(s, i + 1, i + Len(k)) = k

\* String.prototype.split(','): the pieces between the commas
RECURSIVE splitFrom(_, _)
splitFrom(s, cur) ==
  IF s = <<>> THEN <<cur>>
  ELSE IF Head(s) = "," THEN <<cur>> \o splitFrom(Tail(s), <<>>)
  ELSE splitFrom(Tail(s), Append(cur, Head(s)))

split(s) == splitFrom(s, <<>>)

RECURSIVE trimStart(_)
trimStart(s) ==
  IF s # <<>> /\ Head(s) = " " THEN trimStart(Tail(s)) ELSE s

RECURSIVE trimEnd(_)
trimEnd(s) ==
  IF s # <<>> /\ s[Len(s)] = " " THEN trimEnd(SubSeq(s, 1, Len(s) - 1)) ELSE s

\* String.prototype.trim
trim(s) == trimEnd(trimStart(s))

\* mutation: a < b
RECURSIVE DateLess(_, _)
DateLess(a, b) ==
  IF b = <<>> THEN FALSE
  ELSE IF a = <<>> THEN TRUE
  ELSE IF Head(a) < Head(b) THEN TRUE
  ELSE IF Head(a) > Head(b) THEN FALSE
  ELSE DateLess(Tail(a), Tail(b))

\* a <= b on strings that are dates: lexicographic, a proper prefix is smaller
RECURSIVE DateLeq(_, _)
DateLeq(a, b) ==
  IF a = <<>> THEN TRUE
  ELSE IF b = <<>> THEN FALSE
  ELSE IF Head(a) < Head(b) THEN TRUE
  ELSE IF Head(a) > Head(b) THEN FALSE
  ELSE DateLeq(Tail(a), Tail(b))

----------------------------------------------------------------------------
(* Snapshot filter *)

\* The values of selectedSnapshot: 'today', or the year of an <option>
Today == [today |-> TRUE, year |-> 0]

EndOf(y) == [today |-> FALSE, year |-> y]

\* cutoff = `${selectedSnapshot}-12-31`
Cutoff(snap) == <<snap.year, 12, 31>>

RECURSIVE filterByCutoff(_, _)
filterByCutoff(txs, cutoff) ==
  IF txs = <<>> THEN <<>>
  ELSE IF DateLeq(Head(txs).date, cutoff)
       THEN <<Head(txs)>> \o filterByCutoff(Tail(txs), cutoff)
       ELSE filterByCutoff(Tail(txs), cutoff)

snapshotTransactionsOf(txs, snap) ==
  IF snap.today THEN txs ELSE filterByCutoff(txs, Cutoff(snap))

----------------------------------------------------------------------------
(* Period key resolver *)

\* new Date(dateStr) of a date-only string is midnight UTC of that day;
\* getFullYear and getMonth read it in local time, which west of UTC is the
\* evening of the day before.  The result is <<year, 1-indexed month>>.
LocalYearMonth(date, west) ==
  LET y == date[1]
      m == date[2]
      d == date[3]
  IN IF west /\ d = 1
     THEN (IF m = 1 THEN <<y - 1, 12>> ELSE <<y, m - 1>>)
     ELSE <<y, m>>

\* The key strings: `${y}-Q${q}`, `${y}`, `${y}-${mm}`; an unparseable date
\* gives NaN for y and m, hence "NaN-QNaN", "NaN", "NaN-NaN".
getPeriodKey(dateStr, period, west) ==
  LET tag == IF period = "quarterly" THEN "Q"
             ELSE IF period = "yearly" THEN "Y" ELSE "M"
  IN IF Len(dateStr) # 3
     THEN [nan |-> TRUE, tag |-> tag, y |-> 0, n |-> 0]
     ELSE LET ym == LocalYearMonth(dateStr, west)
          IN [nan |-> FALSE, tag |-> tag, y |-> ym[1],
              n |-> IF tag = "Q" THEN CeilDiv3(ym[2])
                    ELSE IF tag = "Y" THEN 0 ELSE ym[2]]

----------------------------------------------------------------------------
(* calculateDynamicValue *)

\* item.linkedKeywords ? item.linkedKeywords.toLowerCase().split(',').map(trim) : []
\* mutation: the entries that are empty after trimming are dropped
globalKeywordsOfNonEmpty(item) ==
  IF item.linkedKeywords = <<>> THEN <<>>
  ELSE LET parts == split(toLowerCase(item.linkedKeywords))
       IN SelectSeq([i \in 1..Len(parts) |-> trim(parts[i])], LAMBDA kw : kw # <<>>)

globalKeywordsOf(item) ==
  IF item.linkedKeywords = <<>> THEN <<>>
  ELSE LET parts == split(toLowerCase(item.linkedKeywords))
       IN [i \in 1..Len(parts) |-> trim(parts[i])]

\* typeof c === 'string' ? {name: c, cap: 0, period: 'lifetime'}
\*                        : {...c, period: c.period || 'lifetime'}
\* mutation: a record without a period is given the period 'monthly', the
\* default of getPeriodKey
normalizeEntryMonthly(c) ==
  IF c.str
  THEN [name |-> c.name, cap |-> Num(0), period |-> "lifetime"]
  ELSE [name |-> c.name, cap |-> c.cap,
        period |-> IF c.period = "undefined" THEN "monthly" ELSE c.period]

normalizeEntry(c) ==
  IF c.str
  THEN [name |-> c.name, cap |-> Num(0), period |-> "lifetime"]
  ELSE [name |-> c.name, cap |-> c.cap,
        period |-> IF c.period = "undefined" THEN "lifetime" ELSE c.period]

\* mutation: an entry whose name equals, up to letter case, the name of an
\* entry before it is dropped
normalizeCategoriesUnique(item) ==
  LET all == [i \in 1..Len(item.linkedCategories) |-> normalizeEntry(item.linkedCategories[i])]
  IN SelectSeq(all, LAMBDA c :
       c = all[CHOOSE i \in 1..Len(all) :
                 /\ toLowerCase(all[i].name) = toLowerCase(c.name)
                 /\ \A j \in 1..(i - 1) : toLowerCase(all[j].name) # toLowerCase(c.name)])

normalizeCategories(item) ==
  [i \in 1..Len(item.linkedCategories) |-> normalizeEntry(item.linkedCategories[i])]

\* mutation: t.category === catConfig.name
matchesCatExact(t, catConfig) == t.category = catConfig.name

matchesCat(t, catConfig) == toLowerCase(t.category) = toLowerCase(catConfig.name)

\* mutation: globalKeywords.every instead of globalKeywords.some
matchesKeyEvery(t, globalKeywords) ==
  \/ Len(globalKeywords) = 0
  \/ \A i \in 1..Len(globalKeywords) :
        includes(toLowerCase(t.description), globalKeywords[i])

matchesKey(t, globalKeywords) ==
  \/ Len(globalKeywords) = 0
  \/ \E i \in 1..Len(globalKeywords) :
        includes(toLowerCase(t.description), globalKeywords[i])

RECURSIVE catTxsOf(_, _, _)
catTxsOf(txs, catConfig, globalKeywords) ==
  IF txs = <<>> THEN <<>>
  ELSE IF matchesCat(Head(txs), catConfig) /\ matchesKey(Head(txs), globalKeywords)
       THEN <<Head(txs)>> \o catTxsOf(Tail(txs), catConfig, globalKeywords)
       ELSE catTxsOf(Tail(txs), catConfig, globalKeywords)

\* mutation: the polarity of an asset is used for every item
getTxImpactOnePolarity(item, t) ==
  IF t.type = "expense" THEN t.amount ELSE 0 - t.amount

\* mutation: a transaction that is neither an income nor an expense has no
\* impact
getTxImpactTyped(item, t) ==
  IF t.type \notin {"income", "expense"} THEN 0
  ELSE IF item.type = "asset"
  THEN (IF t.type = "expense" THEN t.amount ELSE 0 - t.amount)
  ELSE (IF t.type = "income" THEN t.amount ELSE 0 - t.amount)

getTxImpact(item, t) ==
  IF item.type = "asset"
  THEN (IF t.type = "expense" THEN t.amount ELSE 0 - t.amount)
  ELSE (IF t.type = "income" THEN t.amount ELSE 0 - t.amount)

\* catTxs.reduce((sum, t) => sum + getTxImpact(t), 0)
RECURSIVE totalImpactOf(_, _, _)
totalImpactOf(item, catTxs, sum) ==
  IF catTxs = <<>> THEN sum
  ELSE totalImpactOf(item, Tail(catTxs), sum + getTxImpact(item, Head(catTxs)))

\* mutation: the cap is tested against undefined instead of for truthiness
lifetimeContributionDefinedCap(catConfig, totalImpact) ==
  IF catConfig.cap.def /\ totalImpact > catConfig.cap.v
  THEN catConfig.cap.v
  ELSE totalImpact

lifetimeContribution(catConfig, totalImpact) ==
  IF Truthy(catConfig.cap) /\ totalImpact > catConfig.cap.v
  THEN catConfig.cap.v
  ELSE totalImpact

\* mutation: groups[key] = getTxImpact(t), the bucket is overwritten
RECURSIVE groupsOfOverwrite(_, _, _, _, _)
groupsOfOverwrite(item, catConfig, catTxs, west, groups) ==
  IF catTxs = <<>> THEN groups
  ELSE LET t == Head(catTxs)
           key == getPeriodKey(t.date, catConfig.period, west)
       IN groupsOfOverwrite(item, catConfig, Tail(catTxs), west,
                   [k \in DOMAIN groups \cup {key} |->
                      IF k = key THEN getTxImpact(item, t) ELSE groups[k]])

\* groups[key] = (groups[key] || 0) + getTxImpact(t), for each t of catTxs
RECURSIVE groupsOf(_, _, _, _, _)
groupsOf(item, catConfig, catTxs, west, groups) ==
  IF catTxs = <<>> THEN groups
  ELSE LET t == Head(catTxs)
           key == getPeriodKey(t.date, catConfig.period, west)
           old == IF key \in DOMAIN groups THEN groups[key] ELSE 0
       IN groupsOf(item, catConfig, Tail(catTxs), west,
                   [k \in DOMAIN groups \cup {key} |->
                      IF k = key THEN old + getTxImpact(item, t) ELSE groups[k]])

\* mutation: the cap limits the size of a bucket in both directions
effectiveOfSymmetric(catConfig, amount) ==
  IF ~Truthy(catConfig.cap) THEN amount
  ELSE IF amount > catConfig.cap.v THEN catConfig.cap.v
  ELSE IF amount < 0 - catConfig.cap.v THEN 0 - catConfig.cap.v
  ELSE amount

effectiveOf(catConfig, amount) ==
  IF amount > 0 /\ Truthy(catConfig.cap)
  THEN Min(amount, catConfig.cap.v)
  ELSE amount

\* Object.values(groups).forEach(amount => runningTotal += effective)
RECURSIVE periodicContribution(_, _, _)
periodicContribution(catConfig, groups, keys) ==
  IF keys = {} THEN 0
  ELSE LET k == CHOOSE x \in keys : TRUE
       IN effectiveOf(catConfig, groups[k])
          + periodicContribution(catConfig, groups, keys \ {k})

\* step 3 of the per-category loop: what one link adds to runningTotal
categoryContribution(item, catConfig, catTxs, west) ==
  IF ~Truthy(catConfig.cap) \/ catConfig.period = "lifetime"
  THEN lifetimeContribution(catConfig, totalImpactOf(item, catTxs, 0))
  ELSE LET groups == groupsOf(item, catConfig, catTxs, west, <<>>)
       IN periodicContribution(catConfig, groups, DOMAIN groups)

\* for (const catConfig of categories) { ... runningTotal += ... }
RECURSIVE categoryLoop(_, _, _, _, _)
categoryLoop(item, categories, snapTxs, west, runningTotal) ==
  IF categories = <<>> THEN runningTotal
  ELSE LET catConfig == Head(categories)
           catTxs == catTxsOf(snapTxs, catConfig, globalKeywordsOf(item))
       IN categoryLoop(item, Tail(categories), snapTxs, west,
                       runningTotal + categoryContribution(item, catConfig, catTxs, west))

\* runningTotal before the global item cap
runningTotalOf(item, snapTxs, west) ==
  categoryLoop(item, normalizeCategories(item), snapTxs, west, OrZero(item.initialValue))

\* mutation: if (item.maxValue), without the test that it is positive
globalItemCapAnySign(item, runningTotal) ==
  IF Truthy(item.maxValue)
  THEN Min(runningTotal, item.maxValue.v)
  ELSE runningTotal

\* 4. Global Item Cap
globalItemCap(item, runningTotal) ==
  IF Truthy(item.maxValue) /\ item.maxValue.v > 0
  THEN Min(runningTotal, item.maxValue.v)
  ELSE runningTotal

\* mutation: return runningTotal, without Math.max(0, ...)
calculateDynamicValueNoFloor(item, snapTxs, west) ==
  IF ~item.isCalculated THEN item.value
  ELSE globalItemCap(item, runningTotalOf(item, snapTxs, west))

\* mutation: the calculation starts from the stored manual value as well
calculateDynamicValueFromStored(item, snapTxs, west) ==
  IF ~item.isCalculated THEN item.value
  ELSE Max(0, globalItemCap(item, item.value + runningTotalOf(item, snapTxs, west)))

calculateDynamicValue(item, snapTxs, west) ==
  IF ~item.isCalculated THEN item.value
  ELSE Max(0, globalItemCap(item, runningTotalOf(item, snapTxs, west)))

\* mutation: calculateDynamicValue reads the snapshotTransactions of the render
\* before (a stale closure) instead of those of this render
processedItemsOfStale(its, snapTxs, west) ==
  [i \in 1..Len(its) |->
     [item |-> its[i],
      currentSnapshotValue |-> calculateDynamicValue(its[i], snapshotTransactions, west)]]

\* mutation: the running total of the first item is carried into the items
\* after it
processedItemsOfCarry(its, snapTxs, west) ==
  [i \in 1..Len(its) |->
     [item |-> its[i],
      currentSnapshotValue |->
        calculateDynamicValue(its[i], snapTxs, west)
        + (IF i > 1 THEN calculateDynamicValue(its[1], snapTxs, west) ELSE 0)]]

\* items.map(item => ({...item, currentSnapshotValue: calculateDynamicValue(item)}))
processedItemsOf(its, snapTxs, west) ==
  [i \in 1..Len(its) |->
     [item |-> its[i], currentSnapshotValue |-> calculateDynamicValue(its[i], snapTxs, west)]]

----------------------------------------------------------------------------
(* Bounds of the model *)

\* longest ledger
MaxTx == 2

\* new Date().getFullYear()
CurrentYear == 2024

Jan31 == <<2023, 1, 31>>
Feb01 == <<2023, 2, 1>>
Dec31 == <<2023, 12, 31>>
NextJan01 == <<2024, 1, 1>>

\* sequences over S of length at most n
SeqsUpTo(S, n) == UNION {[1..k -> S] : k \in 0..n}

\* a bare-string entry of linkedCategories
StrEntry(n) == [str |-> TRUE, name |-> n, cap |-> Undefined, period |-> "undefined"]

\* an explicit record {name, cap?, period?}
ObjEntry(n, c, p) == [str |-> FALSE, name |-> n, cap |-> c, period |-> p]

\* the ledgers of the lifetime family: one date, both categories, every type
TxSign ==
  [date : {Jan31}, amount : {1, 3}, category : {<<"C">>, <<"L">>},
   type : {"expense", "income", "undefined"}, description : {<<"b">>}]

\* the ledgers of the period family: four dates, one category
TxPeriod ==
  [date : {Jan31, Feb01, Dec31, NextJan01}, amount : {1, 3}, category : {<<"C">>},
   type : {"expense", "income"}, description : {<<"b">>}]

LinksSign ==
  <<  <<>>,
      <<StrEntry(<<"C">>)>>,
      <<StrEntry(<<"c">>)>>,
      <<ObjEntry(<<"C">>, Undefined, "undefined")>>,
      <<ObjEntry(<<"C">>, Undefined, "lifetime")>>,
      <<ObjEntry(<<"C">>, Num(0), "undefined")>>,
      <<ObjEntry(<<"C">>, Num(0), "lifetime")>>,
      <<ObjEntry(<<"C">>, Num(0 - 2), "undefined")>>,
      <<ObjEntry(<<"C">>, Num(0 - 2), "lifetime")>>,
      <<ObjEntry(<<"C">>, Num(2), "undefined")>>,
      <<ObjEntry(<<"C">>, Num(2), "lifetime")>>,
      <<StrEntry(<<"C">>), ObjEntry(<<"L">>, Num(2), "lifetime")>>,
      <<ObjEntry(<<"L">>, Num(2), "lifetime"), StrEntry(<<"C">>)>>,
      <<StrEntry(<<"C">>), StrEntry(<<"c">>)>>,
      <<ObjEntry(<<"C">>, Num(0 - 2), "monthly")>>  >>

LinksPeriod ==
  <<  <<ObjEntry(<<"C">>, Undefined, "monthly")>>,
      <<ObjEntry(<<"C">>, Num(0), "monthly")>>,
      <<ObjEntry(<<"C">>, Num(2), "lifetime")>>,
      <<ObjEntry(<<"C">>, Num(2), "monthly")>>,
      <<ObjEntry(<<"C">>, Num(2), "quarterly")>>,
      <<ObjEntry(<<"C">>, Num(2), "yearly")>>,
      <<ObjEntry(<<"C">>, Num(0 - 2), "monthly")>>,
      <<ObjEntry(<<"C">>, Num(0 - 2), "quarterly")>>,
      <<ObjEntry(<<"C">>, Num(0 - 2), "yearly")>>,
      <<ObjEntry(<<"C">>, Num(2), "monthly"), ObjEntry(<<"c">>, Num(2), "yearly")>>,
      <<ObjEntry(<<"C">>, Num(2), "undefined")>>,
      <<StrEntry(<<"C">>), StrEntry(<<"C">>)>>  >>

ItemTypes == <<"asset", "liability">>

\* <<initialValue, maxValue>> of the calculated items: initialValue unset,
\* negative or above every possible outflow; maxValue unset, zero, negative
\* or positive
InitMaxSign ==
  <<  <<Undefined, Undefined>>, <<Num(7), Undefined>>, <<Num(0 - 2), Undefined>>,
      <<Undefined, Num(2)>>, <<Num(7), Num(2)>>, <<Num(7), Num(0 - 1)>>,
      <<Undefined, Num(0)>>  >>

InitMaxPeriod ==
  <<  <<Undefined, Undefined>>, <<Num(7), Undefined>>, <<Num(0 - 2), Undefined>>,
      <<Num(7), Num(2)>>  >>

ManualValues == <<0 - 1, 0, 2>>

\* the i-th of the calculated items: every type, every pair of InitMax and
\* every link list of Links, in mixed-radix order
CalculatedItem(Links, InitMax, i) ==
  LET a == i - 1
      b == a \div Len(ItemTypes)
      c == b \div Len(InitMax)
  IN [type |-> ItemTypes[(a % Len(ItemTypes)) + 1],
      isCalculated |-> TRUE,
      value |-> 5,
      initialValue |-> InitMax[(b % Len(InitMax)) + 1][1],
      maxValue |-> InitMax[(b % Len(InitMax)) + 1][2],
      linkedCategories |-> Links[(c % Len(Links)) + 1],
      linkedKeywords |-> <<>>]

CalculatedItems(Links, InitMax) ==
  [i \in 1..(Len(ItemTypes) * Len(InitMax) * Len(Links)) |->
     CalculatedItem(Links, InitMax, i)]

\* manual items: a stored value of either sign, and calculation fields that
\* the manual path must ignore
ManualItems ==
  [i \in 1..(Len(ItemTypes) * Len(ManualValues)) |->
     [type |-> ItemTypes[((i - 1) % Len(ItemTypes)) + 1],
      isCalculated |-> FALSE,
      value |-> ManualValues[(((i - 1) \div Len(ItemTypes)) % Len(ManualValues)) + 1],
      initialValue |-> Num(2),
      maxValue |-> Num(1),
      linkedCategories |-> <<StrEntry(<<"C">>)>>,
      linkedKeywords |-> <<>>]]

ItemsSign == CalculatedItems(LinksSign, InitMaxSign) \o ManualItems

ItemsPeriod == CalculatedItems(LinksPeriod, InitMaxPeriod)

----------------------------------------------------------------------------
(* The component *)

\* the years of the <option>s: the local year of every parseable date, and
\* the current year
availableYears(txs, west) ==
  {LocalYearMonth(txs[i].date, west)[1] : i \in {j \in 1..Len(txs) : Len(txs[j].date) = 3}}
  \cup {CurrentYear}

\* one render: both memos recomputed from the state
Rendered(txs, its, snap, west) ==
  /\ snapshotTransactions' = snapshotTransactionsOf(txs, snap)
  /\ processedItems' = processedItemsOf(its, snapshotTransactionsOf(txs, snap), west)

\* the edit form as useState creates it, as handleSaveItem leaves it and as
\* the "add" trigger sets it; id 0 is a form without an id
emptyEditItem ==
  [id |-> 0, name |-> <<>>, value |-> 0, type |-> "asset", isCalculated |-> FALSE,
   initialValue |-> Num(0), linkedCategories |-> <<>>, linkedKeywords |-> <<>>,
   maxValue |-> Num(0)]

InitWith(Ledgers, its) ==
  /\ transactions \in Ledgers
  /\ items = its
  /\ selectedSnapshot = Today
  /\ tzWest \in BOOLEAN
  /\ startingBalance = 0
  /\ editItem = emptyEditItem
  /\ isAdding = FALSE
  /\ snapshotTransactions = snapshotTransactionsOf(transactions, selectedSnapshot)
  /\ processedItems = processedItemsOf(items, snapshotTransactions, tzWest)

\* onChange of the "As of" <select>
setSelectedSnapshot(snap) ==
  /\ snap # selectedSnapshot
  /\ selectedSnapshot' = snap
  /\ UNCHANGED <<transactions, items, tzWest, startingBalance, editItem, isAdding>>
  /\ Rendered(transactions, items, snap, tzWest)

\* `${t.date}-${t.amount}-${(t.description || '').trim().toLowerCase()}`
signature(t) == <<t.date, t.amount, toLowerCase(trim(t.description))>>

\* App: a new transaction that passes the de-duplication is put in front
AddTransaction(t) ==
  /\ Len(transactions) < MaxTx
  /\ \A i \in 1..Len(transactions) : signature(transactions[i]) # signature(t)
  /\ transactions' = <<t>> \o transactions
  /\ UNCHANGED <<items, selectedSnapshot, tzWest, startingBalance, editItem, isAdding>>
  /\ Rendered(transactions', items, selectedSnapshot, tzWest)

\* App, handleApplyRules with rules that change no category: the ledger is
\* replaced by a copy of itself, and both memos are computed again
handleApplyRules ==
  /\ transactions' = [i \in 1..Len(transactions) |-> transactions[i]]
  /\ UNCHANGED <<items, selectedSnapshot, tzWest, startingBalance, editItem, isAdding>>
  /\ Rendered(transactions', items, selectedSnapshot, tzWest)

SelectSnapshot ==
  \E snap \in {Today} \cup {EndOf(y) : y \in availableYears(transactions, tzWest)} :
    setSelectedSnapshot(snap)

Init == InitWith(SeqsUpTo(TxSign, MaxTx), ItemsSign)

Next ==
  \/ SelectSnapshot
  \/ \E t \in TxSign : AddTransaction(t)
  \/ handleApplyRules

Spec == Init /\ [][Next]_vars

InitPeriod == InitWith(SeqsUpTo(TxPeriod, MaxTx), ItemsPeriod)

NextPeriod ==
  \/ SelectSnapshot
  \/ \E t \in TxPeriod : AddTransaction(t)
  \/ handleApplyRules

SpecPeriod == InitPeriod /\ [][NextPeriod]_vars

----------------------------------------------------------------------------
(* The family of ledgers with dates that cannot be parsed *)

\* A date string that is not a date has fewer than three fields: <<>> is the
\* empty string, and Garbled is a string such as "n/a" whose first character
\* is greater than every digit, so that it is greater than every cutoff.
Garbled == <<9999>>

TxDates ==
  [date : {Jan31, <<>>, Garbled}, amount : {1, 3}, category : {<<"C">>},
   type : {"expense", "income"}, description : {<<"b">>}]

LinksDates ==
  <<  <<StrEntry(<<"C">>)>>,
      <<StrEntry(<<"c">>)>>,
      <<ObjEntry(<<"C">>, Num(2), "lifetime")>>,
      <<ObjEntry(<<"C">>, Num(2), "monthly")>>,
      <<ObjEntry(<<"C">>, Num(2), "quarterly")>>,
      <<ObjEntry(<<"C">>, Num(2), "yearly")>>  >>

InitMaxDates == <<  <<Undefined, Undefined>>, <<Num(7), Undefined>>  >>

ItemsDates == CalculatedItems(LinksDates, InitMaxDates)

InitDates == InitWith(SeqsUpTo(TxDates, MaxTx), ItemsDates)

NextDates ==
  \/ SelectSnapshot
  \/ \E t \in TxDates : AddTransaction(t)
  \/ handleApplyRules

SpecDates == InitDates /\ [][NextDates]_vars

----------------------------------------------------------------------------
(* The family of ledgers and items with keywords *)

\* categories that differ in letter case only (C, c) and one that differs
\* in more (CL); descriptions "Ab" and "x"
TxKeywords ==
  [date : {Jan31}, amount : {1, 3}, category : {<<"C">>, <<"c">>, <<"C", "L">>},
   type : {"expense", "income"}, description : {<<"A", "b">>, <<"x">>}]

LinksKeywords ==
  <<  <<StrEntry(<<"C">>)>>,
      <<StrEntry(<<"c">>)>>,
      <<StrEntry(<<"c", "l">>)>>,
      <<StrEntry(<<"C">>), StrEntry(<<"C", "L">>)>>  >>

InitMaxKeywords == <<  <<Undefined, Undefined>>  >>

\* the values of linkedKeywords: "", "b", "B", "x, a", "z" and "z,"
KeywordTexts ==
  <<  <<>>, <<"b">>, <<"B">>, <<"x", ",", " ", "a">>, <<"z">>, <<"z", ",">>,
      <<"z", ",", ",", "z">>, <<" ">>  >>

ItemsKeywords ==
  LET base == CalculatedItems(LinksKeywords, InitMaxKeywords)
  IN [i \in 1..(Len(base) * Len(KeywordTexts)) |->
        [base[((i - 1) % Len(base)) + 1]
           EXCEPT !.linkedKeywords = KeywordTexts[((i - 1) \div Len(base)) + 1]]]

InitKeywords == InitWith(SeqsUpTo(TxKeywords, MaxTx), ItemsKeywords)

NextKeywords ==
  \/ SelectSnapshot
  \/ \E t \in TxKeywords : AddTransaction(t)
  \/ handleApplyRules

SpecKeywords == InitKeywords /\ [][NextKeywords]_vars

----------------------------------------------------------------------------
(* Cash and totals *)

\* seq.filter(t => t.type === ty).reduce((a, b) => a + b.amount, 0)
RECURSIVE amountOfType(_, _)
amountOfType(txs, ty) ==
  IF txs = <<>> THEN 0
  ELSE (IF Head(txs).type = ty THEN Head(txs).amount ELSE 0)
       + amountOfType(Tail(txs), ty)

calculatedCashOf(snapTxs, balance) ==
  balance + (amountOfType(snapTxs, "income") - amountOfType(snapTxs, "expense"))

\* processed.filter(i => i.type === ty).reduce((a, b) => a + b.currentSnapshotValue, 0)
RECURSIVE itemsValue(_, _)
itemsValue(processed, ty) ==
  IF processed = <<>> THEN 0
  ELSE (IF Head(processed).item.type = ty
        THEN Head(processed).currentSnapshotValue ELSE 0)
       + itemsValue(Tail(processed), ty)

\* mutation: cash is added to the assets whatever its sign
totalAssetsAnyCash(processed, cash) ==
  cash + itemsValue(processed, "asset")

totalAssetsOf(processed, cash) ==
  (IF cash > 0 THEN cash ELSE 0) + itemsValue(processed, "asset")

\* mutation: the negative cash is added as it is, without Math.abs
totalLiabilitiesSigned(processed, cash) ==
  itemsValue(processed, "liability") + (IF cash < 0 THEN cash ELSE 0)

totalLiabilitiesOf(processed, cash) ==
  itemsValue(processed, "liability") + (IF cash < 0 THEN 0 - cash ELSE 0)

calculatedCash == calculatedCashOf(snapshotTransactions, startingBalance)

totalAssets == totalAssetsOf(processedItems, calculatedCash)

totalLiabilities == totalLiabilitiesOf(processedItems, calculatedCash)

\* const netWorth = totalAssets - totalLiabilities
netWorth == totalAssets - totalLiabilities

----------------------------------------------------------------------------
(* The item store and the ledger of the small family *)

\* longest item list
MaxItems == 2

\* the ledgers of the small family: the last day of a year and the first day
\* of the next
TxItems ==
  [date : {Dec31, NextJan01}, amount : {3}, category : {<<"C">>},
   type : {"expense", "income"}, description : {<<"b">>}]

StartingBalances == {0 - 4, 0}

\* the contents of the edit form (editItem) without its id; the form with
\* the empty name is the one handleSaveItem refuses
Form(name, type, isCalculated, value, initialValue, linkedCategories) ==
  [name |-> name, type |-> type, isCalculated |-> isCalculated, value |-> value,
   initialValue |-> initialValue, maxValue |-> Undefined,
   linkedCategories |-> linkedCategories, linkedKeywords |-> <<>>]

EditForms ==
  {Form(<<"n">>, "asset", TRUE, 0, Undefined, <<StrEntry(<<"C">>)>>),
   Form(<<"n">>, "asset", TRUE, 0, Num(1), <<ObjEntry(<<"C">>, Num(2), "monthly")>>),
   Form(<<"n">>, "liability", TRUE, 0, Undefined, <<StrEntry(<<"C">>)>>),
   Form(<<"n">>, "asset", FALSE, 2, Undefined, <<>>),
   Form(<<"n">>, "liability", FALSE, 0 - 1, Undefined, <<>>),
   Form(<<>>, "asset", FALSE, 2, Undefined, <<>>)}

\* the ids of the items of the list
IdsOf(its) == {its[i].id : i \in DOMAIN its}

\* the item handleSaveItem builds from the form
newItemOf(id, form) ==
  [id |-> id,
   name |-> form.name,
   value |-> form.value,
   type |-> form.type,
   isCalculated |-> form.isCalculated,
   initialValue |-> Num(OrZero(form.initialValue)),
   linkedCategories |-> form.linkedCategories,
   linkedKeywords |-> form.linkedKeywords,
   maxValue |-> Num(OrZero(form.maxValue))]

\* the list and the form after handleSaveItem has passed the name test
savedItem(id, form) ==
  /\ IF id # 0
     THEN items' = [i \in DOMAIN items |->
                      IF items[i].id = id THEN newItemOf(id, form) ELSE items[i]]
     ELSE /\ Len(items) < MaxItems
          /\ \E fresh \in (1..MaxItems) \ IdsOf(items) :
               items' = Append(items, newItemOf(fresh, form))
  /\ editItem' = emptyEditItem
  /\ isAdding' = FALSE
  /\ UNCHANGED <<transactions, selectedSnapshot, tzWest, startingBalance>>
  /\ Rendered(transactions, items', selectedSnapshot, tzWest)

\* mutation: handleSaveItem without `if (!editItem.name) return`
handleSaveItemAnyName(id, form) == savedItem(id, form)

\* handleSaveItem with the contents form of editItem, of which id is the id;
\* id 0 is a form without an id, for which crypto.randomUUID() gives an id
\* that no item has.  With an empty name it returns at once.
handleSaveItem(id, form) ==
  IF form.name = <<>> THEN UNCHANGED vars ELSE savedItem(id, form)

\* items.filter(i => i.id !== id)
RECURSIVE withoutId(_, _)
withoutId(its, id) ==
  IF its = <<>> THEN <<>>
  ELSE IF Head(its).id # id THEN <<Head(its)>> \o withoutId(Tail(its), id)
       ELSE withoutId(Tail(its), id)

handleRemoveItem(id) ==
  /\ items' = withoutId(items, id)
  /\ UNCHANGED <<transactions, selectedSnapshot, tzWest, startingBalance, editItem, isAdding>>
  /\ Rendered(transactions, items', selectedSnapshot, tzWest)

\* onChange of the starting balance input
setStartingBalance(b) ==
  /\ startingBalance' = b
  /\ UNCHANGED <<transactions, items, selectedSnapshot, tzWest,
                 snapshotTransactions, processedItems, editItem, isAdding>>

\* App, handleUpdateTransaction: the transaction at position i (the one with
\* the id of tx) is replaced by tx
handleUpdateTransaction(i, tx) ==
  /\ i \in DOMAIN transactions
  /\ transactions' = [transactions EXCEPT ![i] = tx]
  /\ UNCHANGED <<items, selectedSnapshot, tzWest, startingBalance, editItem, isAdding>>
  /\ Rendered(transactions', items, selectedSnapshot, tzWest)

\* App, handleDeleteTransaction: the transaction at position i is filtered out
handleDeleteTransaction(i) ==
  /\ i \in DOMAIN transactions
  /\ transactions' = [j \in 1..(Len(transactions) - 1) |->
                        IF j < i THEN transactions[j] ELSE transactions[j + 1]]
  /\ UNCHANGED <<items, selectedSnapshot, tzWest, startingBalance, editItem, isAdding>>
  /\ Rendered(transactions', items, selectedSnapshot, tzWest)

\* an item as JSON.parse of the saved list gives it: optional fields absent
StoredItems ==
  {<<>>,
   << [id |-> 1, name |-> <<"n">>, value |-> 0, type |-> "asset", isCalculated |-> TRUE,
       initialValue |-> Undefined, maxValue |-> Undefined,
       linkedCategories |-> <<ObjEntry(<<"C">>, Num(2), "yearly")>>,
       linkedKeywords |-> <<>>] >>}

InitItems ==
  /\ transactions \in SeqsUpTo(TxItems, MaxTx)
  /\ items \in StoredItems
  /\ selectedSnapshot = Today
  /\ tzWest \in BOOLEAN
  /\ startingBalance \in StartingBalances
  /\ editItem = emptyEditItem
  /\ isAdding = FALSE
  /\ snapshotTransactions = snapshotTransactionsOf(transactions, selectedSnapshot)
  /\ processedItems = processedItemsOf(items, snapshotTransactions, tzWest)

NextItems ==
  \/ SelectSnapshot
  \/ \E t \in TxItems : AddTransaction(t)
  \/ \E i \in 1..MaxTx, t \in TxItems : handleUpdateTransaction(i, t)
  \/ \E i \in 1..MaxTx : handleDeleteTransaction(i)
  \/ \E id \in 0..MaxItems, e \in EditForms :
       (id = 0 \/ id \in IdsOf(items)) /\ handleSaveItem(id, e)
  \/ \E id \in 1..MaxItems : id \in IdsOf(items) /\ handleRemoveItem(id)
  \/ \E b \in StartingBalances : setStartingBalance(b)

SpecItems == InitItems /\ [][NextItems]_vars

----------------------------------------------------------------------------
(* Vocabulary of the properties *)

\* the sum of f over the finite set S
RECURSIVE SumOf(_, _)
SumOf(f, S) ==
  IF S = {} THEN 0
  ELSE LET x == CHOOSE y \in S : TRUE IN f[x] + SumOf(f, S \ {x})

SameIgnoringCase(a, b) == toLowerCase(a) = toLowerCase(b)

\* the positions of txs whose category is `name` up to letter case
InCategory(txs, name) ==
  {i \in 1..Len(txs) : SameIgnoringCase(txs[i].category, name)}

\* the sum of the amounts of the transactions of type ty at the positions I
AmountOf(txs, I, ty) ==
  SumOf([i \in I |-> txs[i].amount], {i \in I : txs[i].type = ty})

Typed(txs, I) == \A i \in I : txs[i].type \in {"income", "expense"}

\* a link without a cap that is not bucketed: a bare string, or a record with
\* no cap and period lifetime or absent
UncappedLifetime(c) ==
  c.str \/ (~c.cap.def /\ c.period \in {"lifetime", "undefined"})

\* the sign table of section 4.4
ExpectedImpact(itemType, t) ==
  CASE itemType = "asset" /\ t.type = "expense" -> t.amount
    [] itemType = "liability" /\ t.type = "income" -> t.amount
    [] itemType = "asset" /\ t.type = "income" -> 0 - t.amount
    [] itemType = "liability" /\ t.type = "expense" -> 0 - t.amount


\* the link as the category loop sees it: a bare string has no cap and is a
\* lifetime link, a record without a period is a lifetime link
CapOf(c) == IF c.str THEN Undefined ELSE c.cap

PeriodOf(c) == IF c.str \/ c.period = "undefined" THEN "lifetime" ELSE c.period

\* a link with a cap and a period other than lifetime
Bucketed(c) == Truthy(CapOf(c)) /\ PeriodOf(c) # "lifetime"

\* the positions of the snapshot transactions selected for the link c of it
\* (no keyword narrowing: the items of the model have no keywords)
Selected(txs, c) == InCategory(txs, c.name)

ImpactSum(it, txs, I) == SumOf([i \in I |-> getTxImpact(it, txs[i])], I)

\* section 4.5 b: one group, clamped at the cap only from above
ExpectedLifetime(it, txs, c) ==
  LET total == ImpactSum(it, txs, Selected(txs, c))
  IN IF Truthy(CapOf(c)) /\ total > CapOf(c).v THEN CapOf(c).v ELSE total

\* section 4.5 c: one group per period key, a positive group clamped at the
\* cap, any other group unchanged
ExpectedBucketed(it, txs, c, west) ==
  LET I == Selected(txs, c)
      keyOf == [i \in I |-> getPeriodKey(txs[i].date, PeriodOf(c), west)]
      keys == {keyOf[i] : i \in I}
      bucket == [k \in keys |-> ImpactSum(it, txs, {i \in I : keyOf[i] = k})]
  IN SumOf([k \in keys |->
              IF bucket[k] > 0 THEN Min(bucket[k], CapOf(c).v) ELSE bucket[k]],
           keys)

\* section 4.6: the ceiling when maxValue is positive, then the floor
ExpectedFinal(it, r) ==
  IF it.maxValue.def /\ it.maxValue.v > 0
  THEN Max(0, Min(r, it.maxValue.v))
  ELSE Max(0, r)

LinksOf(it) == it.linkedCategories

----------------------------------------------------------------------------
(* C1 *)

\* C1: the impact of an income or expense transaction on a calculated item
\* follows the sign table (asset: expense +, income -; liability: income +,
\* expense -), and a calculated item with initialValue 0, no maxValue and one
\* uncapped lifetime link is valued max(0, expenses - incomes) if it is an
\* asset and max(0, incomes - expenses) if it is a liability, over the
\* matching income and expense transactions of the snapshot.
C1_SignPolarity ==
  \A k \in DOMAIN processedItems :
    LET it == processedItems[k].item
        v == processedItems[k].currentSnapshotValue
        txs == snapshotTransactions
    IN it.isCalculated =>
         /\ \A i \in DOMAIN txs :
              txs[i].type \in {"income", "expense"} =>
                getTxImpact(it, txs[i]) = ExpectedImpact(it.type, txs[i])
         /\ ( /\ Len(it.linkedCategories) = 1
              /\ UncappedLifetime(it.linkedCategories[1])
              /\ OrZero(it.initialValue) = 0
              /\ ~it.maxValue.def
              /\ it.linkedKeywords = <<>>
              /\ Typed(txs, InCategory(txs, it.linkedCategories[1].name)) )
            => LET I == InCategory(txs, it.linkedCategories[1].name)
                   exp == AmountOf(txs, I, "expense")
                   inc == AmountOf(txs, I, "income")
               IN v = IF it.type = "asset" THEN Max(0, exp - inc) ELSE Max(0, inc - exp)

\* a liability with one uncapped lifetime link, valued above zero by an
\* income that outweighs an expense in its category
C1_Witness ==
  \E k \in DOMAIN processedItems :
    LET it == processedItems[k].item
        txs == snapshotTransactions
    IN /\ it.isCalculated /\ it.type = "liability"
       /\ Len(it.linkedCategories) = 1
       /\ UncappedLifetime(it.linkedCategories[1])
       /\ OrZero(it.initialValue) = 0 /\ ~it.maxValue.def
       /\ LET I == InCategory(txs, it.linkedCategories[1].name)
          IN /\ Typed(txs, I)
             /\ AmountOf(txs, I, "expense") > 0
             /\ AmountOf(txs, I, "income") > AmountOf(txs, I, "expense")
       /\ processedItems[k].currentSnapshotValue > 0

----------------------------------------------------------------------------
(* C2 *)

\* C2: the value of a calculated item is never negative, and it is 0 whenever
\* the running total after all category caps is negative, for every
\* initialValue, cap, period and maxValue.
C2_FloorAtZero ==
  \A k \in DOMAIN processedItems :
    LET it == processedItems[k].item
        v == processedItems[k].currentSnapshotValue
    IN it.isCalculated =>
         /\ v >= 0
         /\ runningTotalOf(it, snapshotTransactions, tzWest) < 0 => v = 0

\* a calculated item with a period-bucketed cap and initialValue 0 whose
\* running total is negative and whose value is 0
C2_Witness ==
  \E k \in DOMAIN processedItems :
    LET it == processedItems[k].item
    IN /\ it.isCalculated
       /\ Len(LinksOf(it)) = 1 /\ Bucketed(LinksOf(it)[1])
       /\ OrZero(it.initialValue) = 0
       /\ runningTotalOf(it, snapshotTransactions, tzWest) < 0
       /\ processedItems[k].currentSnapshotValue = 0

----------------------------------------------------------------------------
(* C3 *)

\* C3 as claimed: the currentSnapshotValue of every processed item,
\* calculated or manual, is >= 0.
C3_NonNegative ==
  \A k \in DOMAIN processedItems : processedItems[k].currentSnapshotValue >= 0

\* C3 as amended: the currentSnapshotValue of every calculated item is >= 0,
\* and that of a manual item is its stored value, of either sign.
C3_NonNegativeCalculated ==
  \A k \in DOMAIN processedItems :
    LET it == processedItems[k].item
        v == processedItems[k].currentSnapshotValue
    IN /\ it.isCalculated => v >= 0
       /\ ~it.isCalculated => v = it.value /\ (v >= 0 <=> it.value >= 0)

\* a manual item with a negative stored value next to a calculated item whose
\* running total is negative: the first shows the negative value, the second 0
C3_Witness ==
  /\ \E k \in DOMAIN processedItems :
       /\ ~processedItems[k].item.isCalculated
       /\ processedItems[k].item.value < 0
       /\ processedItems[k].currentSnapshotValue < 0
  /\ \E k \in DOMAIN processedItems :
       /\ processedItems[k].item.isCalculated
       /\ runningTotalOf(processedItems[k].item, snapshotTransactions, tzWest) < 0
       /\ processedItems[k].currentSnapshotValue = 0

----------------------------------------------------------------------------
(* C4 *)

\* C4: a calculated item whose links all have a cap and a period monthly,
\* quarterly or yearly is valued at the finalizer of initialValue plus, for
\* each link, the sum over the period keys of its matching snapshot
\* transactions of min(bucketSum, cap) where bucketSum > 0 and of bucketSum
\* unchanged where bucketSum <= 0.
C4_PeriodBuckets ==
  \A k \in DOMAIN processedItems :
    LET it == processedItems[k].item
        v == processedItems[k].currentSnapshotValue
        txs == snapshotTransactions
    IN (it.isCalculated /\ \A j \in DOMAIN LinksOf(it) : Bucketed(LinksOf(it)[j]))
       => v = ExpectedFinal(it,
                OrZero(it.initialValue)
                + SumOf([j \in DOMAIN LinksOf(it) |->
                           ExpectedBucketed(it, txs, LinksOf(it)[j], tzWest)],
                        DOMAIN LinksOf(it)))

\* an asset with one monthly cap of 2 and no maxValue, and two buckets: one
\* above the cap, which counts 2, and a negative one, which counts in full
C4_Witness ==
  \E k \in DOMAIN processedItems :
    LET it == processedItems[k].item
        txs == snapshotTransactions
    IN /\ it.isCalculated /\ it.type = "asset" /\ ~it.maxValue.def
       /\ Len(LinksOf(it)) = 1 /\ Bucketed(LinksOf(it)[1])
       /\ LinksOf(it)[1].period = "monthly" /\ LinksOf(it)[1].cap = Num(2)
       /\ OrZero(it.initialValue) = 7
       /\ Len(txs) = 2
       /\ getPeriodKey(txs[1].date, "monthly", tzWest)
            # getPeriodKey(txs[2].date, "monthly", tzWest)
       /\ \E i \in 1..2 : getTxImpact(it, txs[i]) = 3
       /\ \E i \in 1..2 : getTxImpact(it, txs[i]) = 0 - 1
       /\ processedItems[k].currentSnapshotValue = 8

----------------------------------------------------------------------------
(* C5 *)

\* the links of it are all lifetime links: without a cap, or with period
\* lifetime or absent
AllLifetime(it) == \A j \in DOMAIN LinksOf(it) : ~Bucketed(LinksOf(it)[j])

\* the value the finalizer gives it when its links add `sum` to initialValue
ValueWith(it, sum) == ExpectedFinal(it, OrZero(it.initialValue) + sum)

\* C5 as claimed: a calculated item whose links are all lifetime links is
\* valued at the finalizer of initialValue plus, for each link, the sum of the
\* impacts of its matching snapshot transactions, replaced by the cap if a cap
\* is set and the sum exceeds it; and a negative sum is never clamped: the
\* one link of an item adds it as it is.
C5_LifetimeCap ==
  \A k \in DOMAIN processedItems :
    LET it == processedItems[k].item
        v == processedItems[k].currentSnapshotValue
        txs == snapshotTransactions
    IN (it.isCalculated /\ AllLifetime(it)) =>
         /\ v = ValueWith(it,
                  SumOf([j \in DOMAIN LinksOf(it) |-> ExpectedLifetime(it, txs, LinksOf(it)[j])],
                        DOMAIN LinksOf(it)))
         /\ ( /\ Len(LinksOf(it)) = 1
              /\ ImpactSum(it, txs, Selected(txs, LinksOf(it)[1])) < 0 )
            => v = ValueWith(it, ImpactSum(it, txs, Selected(txs, LinksOf(it)[1])))

\* the first half of C5 alone: the clamp from above, whatever the sign of
\* the cap
C5_ClampFromAbove ==
  \A k \in DOMAIN processedItems :
    LET it == processedItems[k].item
        v == processedItems[k].currentSnapshotValue
        txs == snapshotTransactions
    IN (it.isCalculated /\ AllLifetime(it)) =>
         v = ValueWith(it,
               SumOf([j \in DOMAIN LinksOf(it) |-> ExpectedLifetime(it, txs, LinksOf(it)[j])],
                     DOMAIN LinksOf(it)))

\* the second half of C5 for caps that are not negative
C5_NegativeSumUnclamped ==
  \A k \in DOMAIN processedItems :
    LET it == processedItems[k].item
        v == processedItems[k].currentSnapshotValue
        txs == snapshotTransactions
    IN ( /\ it.isCalculated /\ AllLifetime(it)
         /\ Len(LinksOf(it)) = 1
         /\ CapOf(LinksOf(it)[1]).v >= 0
         /\ ImpactSum(it, txs, Selected(txs, LinksOf(it)[1])) < 0 )
       => v = ValueWith(it, ImpactSum(it, txs, Selected(txs, LinksOf(it)[1])))

----------------------------------------------------------------------------
(* C6 *)

\* C6: a calculated item with running total r after all links is valued
\* max(0, min(r, maxValue)) when maxValue is set and greater than zero and
\* max(0, r) otherwise, so its value never exceeds a positive maxValue.
C6_Finalizer ==
  \A k \in DOMAIN processedItems :
    LET it == processedItems[k].item
        v == processedItems[k].currentSnapshotValue
        r == runningTotalOf(it, snapshotTransactions, tzWest)
    IN it.isCalculated =>
         /\ (it.maxValue.def /\ it.maxValue.v > 0) => v = Max(0, Min(r, it.maxValue.v))
         /\ ~(it.maxValue.def /\ it.maxValue.v > 0) => v = Max(0, r)
         /\ (it.maxValue.def /\ it.maxValue.v > 0) => v <= it.maxValue.v

\* an item whose running total is above its positive maxValue, valued at
\* maxValue, next to one with a negative maxValue valued at its running total
C6_Witness ==
  /\ \E k \in DOMAIN processedItems :
       LET it == processedItems[k].item
       IN /\ it.isCalculated /\ it.maxValue.def /\ it.maxValue.v > 0
          /\ runningTotalOf(it, snapshotTransactions, tzWest) > it.maxValue.v
          /\ processedItems[k].currentSnapshotValue = it.maxValue.v
  /\ \E k \in DOMAIN processedItems :
       LET it == processedItems[k].item
       IN /\ it.isCalculated /\ it.maxValue.def /\ it.maxValue.v < 0
          /\ Len(snapshotTransactions) > 0
          /\ runningTotalOf(it, snapshotTransactions, tzWest) > 7
          /\ processedItems[k].currentSnapshotValue
               = runningTotalOf(it, snapshotTransactions, tzWest)

----------------------------------------------------------------------------
(* C7 *)

\* the date string d is <= "Y-12-31": the empty string, an earlier year, or
\* the year Y up to its last day
NotAfterEndOf(d, Y) ==
  \/ d = <<>>
  \/ d[1] < Y
  \/ d[1] = Y /\ (d[2] < 12 \/ (d[2] = 12 /\ d[3] <= 31))

\* the positions of the ledger kept by the snapshot snap
Kept(txs, snap) ==
  IF snap.today THEN 1..Len(txs)
  ELSE {i \in 1..Len(txs) : NotAfterEndOf(txs[i].date, snap.year)}

\* s is txs restricted to the positions I, in the order of txs
IsRestriction(s, txs, I) ==
  /\ Len(s) = Cardinality(I)
  /\ \A i \in I : s[Cardinality({j \in I : j <= i})] = txs[i]

\* txs with the transactions dated after the cutoff of snap removed
Truncated(txs, snap) ==
  LET I == Kept(txs, snap)
  IN [n \in 1..Cardinality(I) |->
        txs[CHOOSE i \in I : Cardinality({j \in I : j <= i}) = n]]

\* C7: under 'today' the snapshot is the whole ledger; under a year's cutoff
\* it is the transactions whose date string is <= the cutoff, in ledger
\* order, and every value equals the value computed under 'today' on the
\* ledger without the later transactions.
C7_SnapshotFilter ==
  /\ selectedSnapshot.today => snapshotTransactions = transactions
  /\ IsRestriction(snapshotTransactions, transactions, Kept(transactions, selectedSnapshot))
  /\ \A k \in DOMAIN processedItems :
       processedItems[k].currentSnapshotValue
         = calculateDynamicValue(items[k],
             snapshotTransactionsOf(Truncated(transactions, selectedSnapshot), Today),
             tzWest)

\* a year's snapshot of a ledger that holds a transaction dated on the cutoff,
\* which is kept, behind one dated the day after, which is dropped, and an
\* item whose value differs from its value under 'today'
C7_Witness ==
  /\ ~selectedSnapshot.today
  /\ Len(transactions) = 2
  /\ transactions[1].date = <<selectedSnapshot.year + 1, 1, 1>>
  /\ transactions[2].date = Cutoff(selectedSnapshot)
  /\ snapshotTransactions = <<transactions[2]>>
  /\ \E k \in DOMAIN processedItems :
       processedItems[k].currentSnapshotValue
         # calculateDynamicValue(items[k], transactions, tzWest)

----------------------------------------------------------------------------
(* C8 *)

\* it with the bare-string entry at position j written as the explicit
\* record {name, period: 'lifetime'} without a cap
Explicit(it, j) ==
  [it EXCEPT !.linkedCategories[j] = ObjEntry(it.linkedCategories[j].name, Undefined, "lifetime")]

\* C8: writing a bare-string entry as the explicit record {name, no cap,
\* period lifetime} does not change the value, and the bare-string entry of a
\* one-link item adds the uncapped sum of the impacts of the snapshot
\* transactions of its category.
C8_LegacyShorthand ==
  \A k \in DOMAIN processedItems :
    LET it == processedItems[k].item
        v == processedItems[k].currentSnapshotValue
        txs == snapshotTransactions
    IN it.isCalculated =>
         /\ \A j \in DOMAIN LinksOf(it) :
              LinksOf(it)[j].str =>
                v = calculateDynamicValue(Explicit(it, j), txs, tzWest)
         /\ (Len(LinksOf(it)) = 1 /\ LinksOf(it)[1].str) =>
              v = ValueWith(it, ImpactSum(it, txs, InCategory(txs, LinksOf(it)[1].name)))

\* an item without maxValue whose one link is a bare string and whose
\* category holds a positive sum of impacts, which is its value
C8_Witness ==
  \E k \in DOMAIN processedItems :
    LET it == processedItems[k].item
        txs == snapshotTransactions
    IN /\ it.isCalculated /\ ~it.maxValue.def /\ OrZero(it.initialValue) = 0
       /\ Len(LinksOf(it)) = 1 /\ LinksOf(it)[1].str
       /\ ImpactSum(it, txs, InCategory(txs, LinksOf(it)[1].name)) > 3
       /\ processedItems[k].currentSnapshotValue
            = ImpactSum(it, txs, InCategory(txs, LinksOf(it)[1].name))

----------------------------------------------------------------------------
(* C9 *)

----------------------------------------------------------------------------
(* C10 *)

PermutationsOf(n) == {f \in [1..n -> 1..n] : \A a, b \in 1..n : f[a] = f[b] => a = b}

Permuted(s, f) == [i \in 1..Len(s) |-> s[f[i]]]

----------------------------------------------------------------------------
(* C11 *)

\* the step puts the transaction Head(transactions') in front of the ledger
\* and the snapshot keeps it
AddedInSnapshot ==
  /\ transactions' # <<>>
  /\ transactions' = <<Head(transactions')>> \o transactions
  /\ snapshotTransactions' = <<Head(transactions')>> \o snapshotTransactions

\* every link of the item has a cap, of either sign (positive only if pos)
AllCapped(it, pos) ==
  /\ LinksOf(it) # <<>>
  /\ \A j \in DOMAIN LinksOf(it) :
       /\ Truthy(CapOf(LinksOf(it)[j]))
       /\ pos => CapOf(LinksOf(it)[j]).v > 0

\* the sum, before the step, of the group the new transaction t falls in:
\* the bucket of its period key, or the whole category for a lifetime link
GroupSumBefore(it, c, t) ==
  LET txs == snapshotTransactions
      I == IF PeriodOf(c) = "lifetime" THEN Selected(txs, c)
           ELSE {i \in Selected(txs, c) :
                   getPeriodKey(txs[i].date, PeriodOf(c), tzWest)
                     = getPeriodKey(t.date, PeriodOf(c), tzWest)}
  IN ImpactSum(it, txs, I)

----------------------------------------------------------------------------
(* C12 *)

\* the transactions of txs whose date can be parsed, in their order
RECURSIVE WellDated(_)
WellDated(txs) ==
  IF txs = <<>> THEN <<>>
  ELSE IF Len(Head(txs).date) = 3
       THEN <<Head(txs)>> \o WellDated(Tail(txs))
       ELSE WellDated(Tail(txs))

\* C12: under a period-bucketed cap a transaction whose date cannot be parsed
\* is left out of the grouping and adds nothing: the value of a calculated
\* item whose links all have a cap and a period other than lifetime is its
\* value on the snapshot transactions with a parseable date.
C12_MalformedDateExcluded ==
  \A k \in DOMAIN processedItems :
    LET it == processedItems[k].item
    IN (it.isCalculated /\ \A j \in DOMAIN LinksOf(it) : Bucketed(LinksOf(it)[j]))
       => processedItems[k].currentSnapshotValue
            = calculateDynamicValue(it, WellDated(snapshotTransactions), tzWest)

----------------------------------------------------------------------------
(* C13 *)

\* the item with the cap of its j-th link removed
WithoutCap(it, j) ==
  LET c == LinksOf(it)[j]
  IN IF c.str THEN it
     ELSE [it EXCEPT !.linkedCategories[j] = ObjEntry(c.name, Undefined, c.period)]

\* C13: a link whose cap is undefined, zero or negative is valued like the
\* same link without a cap, whatever its period.
C13_NonPositiveCapUnset ==
  \A k \in DOMAIN processedItems :
    LET it == processedItems[k].item
    IN it.isCalculated =>
         \A j \in DOMAIN LinksOf(it) :
           (~CapOf(LinksOf(it)[j]).def \/ CapOf(LinksOf(it)[j]).v <= 0)
             => processedItems[k].currentSnapshotValue
                  = calculateDynamicValue(WithoutCap(it, j), snapshotTransactions, tzWest)

\* the part of C13 that the code satisfies: a cap of zero is no cap
C13_ZeroCapUnset ==
  \A k \in DOMAIN processedItems :
    LET it == processedItems[k].item
    IN it.isCalculated =>
         \A j \in DOMAIN LinksOf(it) :
           (~CapOf(LinksOf(it)[j]).def \/ CapOf(LinksOf(it)[j]).v = 0)
             => processedItems[k].currentSnapshotValue
                  = calculateDynamicValue(WithoutCap(it, j), snapshotTransactions, tzWest)

----------------------------------------------------------------------------
(* C14 *)

\* other settings of the calculation fields of an item
OtherCalculationFields ==
  [initialValue : {Undefined, Num(7)}, maxValue : {Undefined, Num(1)},
   linkedCategories : {<<>>, <<StrEntry(<<"C">>)>>, <<ObjEntry(<<"L">>, Num(2), "monthly")>>},
   linkedKeywords : {<<>>, <<"b">>}]

WithCalculationFields(it, f) ==
  [it EXCEPT !.initialValue = f.initialValue, !.maxValue = f.maxValue,
             !.linkedCategories = f.linkedCategories,
             !.linkedKeywords = f.linkedKeywords]

\* C14: a manual item is valued at its stored value, whatever the ledger, the
\* snapshot and its calculation fields (initialValue, maxValue,
\* linkedCategories, linkedKeywords) are; a calculated item is valued the same
\* whatever its stored value is.
C14_OneSource ==
  \A k \in DOMAIN processedItems :
    LET it == processedItems[k].item
        v == processedItems[k].currentSnapshotValue
    IN /\ ~it.isCalculated =>
            /\ v = it.value
            /\ \A f \in OtherCalculationFields :
                 \A txs \in {<<>>, transactions, snapshotTransactions} :
                   calculateDynamicValue(WithCalculationFields(it, f), txs, tzWest) = it.value
       /\ it.isCalculated =>
            \A w \in {0 - 1, 0, 2} :
              calculateDynamicValue([it EXCEPT !.value = w], snapshotTransactions, tzWest) = v

\* a manual item and a calculated item that differ from what the other source
\* would give: the manual one would be calculated to another value from the
\* ledger, the calculated one is not valued at its stored value
C14_Witness ==
  /\ \E i \in DOMAIN snapshotTransactions : snapshotTransactions[i].category = <<"C">>
  /\ \E k \in DOMAIN processedItems :
       LET it == processedItems[k].item
       IN /\ ~it.isCalculated
          /\ it.value = 2
          /\ processedItems[k].currentSnapshotValue = 2
          /\ calculateDynamicValue([it EXCEPT !.isCalculated = TRUE],
                                   snapshotTransactions, tzWest) # 2
  /\ \E k \in DOMAIN processedItems :
       LET it == processedItems[k].item
       IN /\ it.isCalculated
          /\ LinksOf(it) # <<>>
          /\ processedItems[k].currentSnapshotValue # it.value

----------------------------------------------------------------------------
(* C15 *)

\* the configuration of an item: everything but its id
ConfigOf(it) == [it EXCEPT !.id = 0]

\* C15: the value of an item depends on its own configuration, the ledger and
\* the snapshot only. Two items of the list with the same configuration have
\* the same value wherever they stand in the list, and a step that leaves the
\* snapshot transactions as they are (an item saved, added or removed) leaves
\* the value of every item that is in the list before and after it unchanged.
C15_ItemsDoNotInteract ==
  /\ [](\A k, m \in DOMAIN processedItems :
          ConfigOf(processedItems[k].item) = ConfigOf(processedItems[m].item)
            => processedItems[k].currentSnapshotValue
                 = processedItems[m].currentSnapshotValue)
  /\ [][snapshotTransactions' = snapshotTransactions =>
          \A k \in DOMAIN processedItems :
            \A m \in DOMAIN processedItems' :
              processedItems[k].item = processedItems'[m].item
                => processedItems[k].currentSnapshotValue
                     = processedItems'[m].currentSnapshotValue]_vars

\* two calculated items fed by the same category of a ledger that has a
\* transaction of it, the second one of another type than the first, each
\* with a value of its own
C15_Witness ==
  /\ Len(processedItems) = 2
  /\ \E i \in DOMAIN snapshotTransactions : snapshotTransactions[i].category = <<"C">>
  /\ processedItems[1].item.isCalculated
  /\ processedItems[2].item.isCalculated
  /\ processedItems[1].item.type # processedItems[2].item.type
  /\ processedItems[1].item.id # processedItems[2].item.id
  /\ processedItems[1].currentSnapshotValue > 0
  /\ processedItems[2].currentSnapshotValue = 0

----------------------------------------------------------------------------
(* C16 *)

\* C16: in every state the component reaches by changes of the ledger, of the
\* items and of the snapshot selection, the snapshot transactions are the
\* filter of the current ledger by the current selection, and the processed
\* items are the current items, each with the value calculateDynamicValue
\* gives it on those snapshot transactions.
C16_FullRecomputation ==
  LET snap == snapshotTransactionsOf(transactions, selectedSnapshot)
  IN /\ snapshotTransactions = snap
     /\ DOMAIN processedItems = DOMAIN items
     /\ \A k \in DOMAIN items :
          /\ processedItems[k].item = items[k]
          /\ processedItems[k].currentSnapshotValue
               = calculateDynamicValue(items[k], snap, tzWest)

\* after an item was added to the stored one and a year was selected that
\* cuts a transaction off: an item is valued otherwise than it would be on
\* the whole ledger
C16_Witness ==
  /\ Len(items) = 2
  /\ ~selectedSnapshot.today
  /\ Len(transactions) = 2
  /\ Len(snapshotTransactions) = 1
  /\ \E k \in DOMAIN processedItems :
       processedItems[k].currentSnapshotValue
         # calculateDynamicValue(items[k], transactions, tzWest)

----------------------------------------------------------------------------
(* C17 *)

\* the positions of the processed items of type ty
OfType(ty) == {k \in DOMAIN processedItems : processedItems[k].item.type = ty}

ValueSum(K) == SumOf([k \in K |-> processedItems[k].currentSnapshotValue], K)

\* cash as the claim gives it: the starting balance plus the incomes minus
\* the expenses of the snapshot transactions
ExpectedCash ==
  startingBalance
  + AmountOf(snapshotTransactions, DOMAIN snapshotTransactions, "income")
  - AmountOf(snapshotTransactions, DOMAIN snapshotTransactions, "expense")

\* C17: cash is the starting balance plus incomes minus expenses over the
\* snapshot transactions; total assets is the sum of the values of the asset
\* items plus cash when cash is positive; total liabilities is the sum of
\* the values of the liability items plus the absolute value of cash when
\* cash is negative.
C17_Totals ==
  /\ calculatedCash = ExpectedCash
  /\ totalAssets
       = ValueSum(OfType("asset")) + (IF ExpectedCash > 0 THEN ExpectedCash ELSE 0)
  /\ totalLiabilities
       = ValueSum(OfType("liability"))
         + (IF ExpectedCash < 0 THEN 0 - ExpectedCash ELSE 0)

\* negative cash next to an asset and a liability that both have a value
C17_Witness ==
  /\ ExpectedCash < 0
  /\ startingBalance # 0
  /\ snapshotTransactions # <<>>
  /\ \E k \in OfType("asset") : processedItems[k].currentSnapshotValue > 0
  /\ \E k \in OfType("liability") : processedItems[k].currentSnapshotValue # 0
  /\ totalLiabilities > ValueSum(OfType("liability"))

----------------------------------------------------------------------------
(* C18 *)

\* the key the claim gives for the date string <<y, m, d>>: the year and the
\* month, the quarter or nothing, as written in the string
ExpectedKey(date, period) ==
  [nan |-> FALSE,
   tag |-> IF period = "quarterly" THEN "Q" ELSE IF period = "yearly" THEN "Y" ELSE "M",
   y |-> date[1],
   n |-> IF period = "quarterly" THEN (date[2] + 2) \div 3
         ELSE IF period = "yearly" THEN 0 ELSE date[2]]

Periods == {"monthly", "quarterly", "yearly"}

\* C18: the period key of a date string is made of the calendar year and
\* month written in the string (y-mm, y-Qq with q = ceil(m/3), y), so two
\* transactions share a bucket exactly when their date strings have the same
\* year and month, year and quarter, or year.
C18_PeriodKey ==
  \A i, j \in DOMAIN snapshotTransactions :
    \A period \in Periods :
      LET a == snapshotTransactions[i].date
          b == snapshotTransactions[j].date
      IN /\ getPeriodKey(a, period, tzWest) = ExpectedKey(a, period)
         /\ (getPeriodKey(a, period, tzWest) = getPeriodKey(b, period, tzWest))
              <=> (ExpectedKey(a, period) = ExpectedKey(b, period))

\* the part of C18 that the code satisfies: where local time is not behind
\* UTC the key is made of the year and month of the string
C18_PeriodKeyNotWestOfUTC ==
  ~tzWest =>
    \A i \in DOMAIN snapshotTransactions :
      \A period \in Periods :
        getPeriodKey(snapshotTransactions[i].date, period, tzWest)
          = ExpectedKey(snapshotTransactions[i].date, period)

----------------------------------------------------------------------------
(* Matching, as the claims word it *)

\* the same letter, in either case
SameLetter(x, y) ==
  \/ x = y
  \/ {x, y} \in {{"A", "a"}, {"B", "b"}, {"C", "c"}, {"L", "l"}}

\* equality of two strings up to letter case
CaseInsensitiveEqual(a, b) ==
  /\ Len(a) = Len(b)
  /\ \A i \in 1..Len(a) : SameLetter(a[i], b[i])

\* kw occurs in desc as a substring, up to letter case
Contains(desc, kw) ==
  \E off \in 0..(Len(desc) - Len(kw)) :
    \A i \in 1..Len(kw) : SameLetter(desc[off + i], kw[i])

\* the comma-separated pieces of a text: the maximal stretches without a comma
Pieces(s) ==
  {SubSeq(s, a, b) : <<a, b>> \in
     {ab \in (1..(Len(s) + 1)) \X (0..Len(s)) :
        /\ ab[1] <= ab[2] + 1
        /\ (ab[1] = 1 \/ s[ab[1] - 1] = ",")
        /\ (ab[2] = Len(s) \/ s[ab[2] + 1] = ",")
        /\ \A i \in ab[1]..ab[2] : s[i] # ","}}

\* a piece without the spaces around it
Trimmed(piece) ==
  LET inked == {i \in 1..Len(piece) : piece[i] # " "}
  IN IF inked = {} THEN <<>>
     ELSE SubSeq(piece, CHOOSE i \in inked : \A j \in inked : i <= j,
                        CHOOSE i \in inked : \A j \in inked : i >= j)

\* the keywords of an item
KeywordsOf(it) == {Trimmed(piece) : piece \in Pieces(it.linkedKeywords)}

\* the transaction passes the keyword filter of the item
PassesKeywords(it, t) ==
  \/ it.linkedKeywords = <<>>
  \/ \E kw \in KeywordsOf(it) : Contains(t.description, kw)

\* the positions of txs that the claims select for the link c of the item
SelectedFor(it, c, txs) ==
  {i \in DOMAIN txs : CaseInsensitiveEqual(txs[i].category, c.name)
                        /\ PassesKeywords(it, txs[i])}

\* the transactions of txs at the positions of I, in their order
RECURSIVE Restricted(_, _, _)
Restricted(txs, I, from) ==
  IF from > Len(txs) THEN <<>>
  ELSE (IF from \in I THEN <<txs[from]>> ELSE <<>>) \o Restricted(txs, I, from + 1)

\* the sum over the links of the item of the impacts of the selected
\* transactions (the links of this family have no cap)
SelectedImpact(it, txs) ==
  SumOf([j \in DOMAIN LinksOf(it) |->
           ImpactSum(it, txs, SelectedFor(it, LinksOf(it)[j], txs))],
        DOMAIN LinksOf(it))

----------------------------------------------------------------------------
(* C19 *)

\* C19: the transactions taken for a link are the snapshot transactions
\* whose category equals the link's name up to letter case and that pass the
\* keyword filter, in their order; a transaction whose category differs from
\* the name in more than letter case is not among them.
C19_CaseInsensitiveCategory ==
  \A k \in DOMAIN processedItems :
    LET it == processedItems[k].item
        txs == snapshotTransactions
    IN it.isCalculated =>
         \A j \in DOMAIN LinksOf(it) :
           LET c == LinksOf(it)[j]
               taken == catTxsOf(txs, normalizeEntry(c), globalKeywordsOf(it))
           IN /\ taken = Restricted(txs, SelectedFor(it, c, txs), 1)
              /\ \A i \in DOMAIN taken : CaseInsensitiveEqual(taken[i].category, c.name)

\* a link named "c" with a ledger that has a transaction of category "C",
\* which is taken, and one of category "CL", which is not
C19_Witness ==
  /\ Len(snapshotTransactions) = 2
  /\ snapshotTransactions[1].category = <<"C", "L">>
  /\ snapshotTransactions[2].category = <<"C">>
  /\ \E k \in DOMAIN processedItems :
       LET it == processedItems[k].item
       IN /\ it.isCalculated
          /\ it.type = "asset"
          /\ it.linkedKeywords = <<>>
          /\ LinksOf(it) = <<StrEntry(<<"c">>)>>
          /\ snapshotTransactions[2].type = "expense"
          /\ processedItems[k].currentSnapshotValue = snapshotTransactions[2].amount

----------------------------------------------------------------------------
(* C20 *)

\* C20: an item with keywords takes from each linked category only the
\* transactions whose description contains one of its comma-separated
\* keywords, up to letter case, so its running total is the sum of the impacts
\* of those and its value is what it is on the ledger without the others; an
\* item without keywords takes every transaction of its linked categories.
C20_KeywordNarrowing ==
  \A k \in DOMAIN processedItems :
    LET it == processedItems[k].item
        txs == snapshotTransactions
        passing == {i \in DOMAIN txs : \E kw \in KeywordsOf(it) : Contains(txs[i].description, kw)}
    IN it.isCalculated =>
         /\ runningTotalOf(it, txs, tzWest) = OrZero(it.initialValue) + SelectedImpact(it, txs)
         /\ it.linkedKeywords # <<>> =>
              /\ \A j \in DOMAIN LinksOf(it) :
                   \A t \in {catTxsOf(txs, normalizeEntry(LinksOf(it)[j]), globalKeywordsOf(it))[i] :
                              i \in DOMAIN catTxsOf(txs, normalizeEntry(LinksOf(it)[j]), globalKeywordsOf(it))} :
                     \E kw \in KeywordsOf(it) : Contains(t.description, kw)
              /\ processedItems[k].currentSnapshotValue
                   = calculateDynamicValue(it, Restricted(txs, passing, 1), tzWest)
         /\ it.linkedKeywords = <<>> =>
              \A j \in DOMAIN LinksOf(it) :
                SelectedFor(it, LinksOf(it)[j], txs)
                  = {i \in DOMAIN txs : CaseInsensitiveEqual(txs[i].category, LinksOf(it)[j].name)}

\* an asset with the keywords "x, a" and the link "C", and two expenses of
\* category "C": the one described "Ab" counts, by the keyword "a"
C20_Witness ==
  /\ Len(snapshotTransactions) = 2
  /\ \A i \in 1..2 : /\ snapshotTransactions[i].category = <<"C">>
                      /\ snapshotTransactions[i].type = "expense"
  /\ snapshotTransactions[1].description = <<"A", "b">>
  /\ snapshotTransactions[2].description = <<"x">>
  /\ \E k, m \in DOMAIN processedItems :
       LET it == processedItems[k].item
           other == processedItems[m].item
       IN /\ it.isCalculated /\ it.type = "asset"
          /\ it.linkedKeywords = <<"b">>
          /\ LinksOf(it) = <<StrEntry(<<"C">>)>>
          /\ processedItems[k].currentSnapshotValue = snapshotTransactions[1].amount
          /\ other.isCalculated /\ other.type = "asset"
          /\ other.linkedKeywords = <<"x", ",", " ", "a">>
          /\ LinksOf(other) = <<StrEntry(<<"C">>)>>
          /\ processedItems[m].currentSnapshotValue
               = snapshotTransactions[1].amount + snapshotTransactions[2].amount

----------------------------------------------------------------------------
(* C21 *)

\* the positions of txs whose category is the name of some link of the item,
\* up to letter case
Linked(it, txs) ==
  {i \in DOMAIN txs :
     \E j \in DOMAIN LinksOf(it) : SameIgnoringCase(txs[i].category, LinksOf(it)[j].name)}

\* C21: a snapshot transaction whose category matches none of the links of a
\* calculated item does not affect the item, which is valued as on the ledger
\* without such transactions; and an item none of whose links matches a
\* snapshot transaction (no link at all, or links naming absent categories)
\* is valued at the ceiling and floor applied to its initialValue, or to 0
\* when there is none.
C21_OnlyLinkedMatter ==
  \A k \in DOMAIN processedItems :
    LET it == processedItems[k].item
        v == processedItems[k].currentSnapshotValue
        txs == snapshotTransactions
    IN it.isCalculated =>
         /\ v = calculateDynamicValue(it, Restricted(txs, Linked(it, txs), 1), tzWest)
         /\ Linked(it, txs) = {} => v = ExpectedFinal(it, OrZero(it.initialValue))

\* the first half of C21 alone: the unlinked transactions do not affect the
\* item
C21_UnlinkedIgnored ==
  \A k \in DOMAIN processedItems :
    LET it == processedItems[k].item
        txs == snapshotTransactions
    IN it.isCalculated =>
         processedItems[k].currentSnapshotValue
           = calculateDynamicValue(it, Restricted(txs, Linked(it, txs), 1), tzWest)

\* the second half of C21 for the items without a negative cap
C21_NoMatchNoNegativeCap ==
  \A k \in DOMAIN processedItems :
    LET it == processedItems[k].item
        txs == snapshotTransactions
    IN ( /\ it.isCalculated
         /\ Linked(it, txs) = {}
         /\ \A j \in DOMAIN LinksOf(it) :
              Truthy(CapOf(LinksOf(it)[j])) => CapOf(LinksOf(it)[j]).v > 0 )
       => processedItems[k].currentSnapshotValue = ExpectedFinal(it, OrZero(it.initialValue))

----------------------------------------------------------------------------
(* C22 *)

\* the contribution of the link c to the running total of the item: bucketed
\* when the link has a cap and a period other than lifetime, else one group
ExpectedContribution(it, txs, c, west) ==
  IF (~c.str) /\ Truthy(c.cap) /\ c.period \notin {"lifetime", "undefined"}
  THEN ExpectedBucketed(it, txs, c, west)
  ELSE ExpectedLifetime(it, txs, c)

\* C22: a link record with a cap and no period is a lifetime link: its
\* matching transactions are summed as one group, clamped once at the cap,
\* and never bucketed; only a link with a cap and a period other than
\* lifetime is bucketed. So every calculated item is valued at the ceiling
\* and floor of its initialValue plus, per link, the bucketed sum in the one
\* case and the single clamped sum in every other.
C22_DefaultPeriod ==
  \A k \in DOMAIN processedItems :
    LET it == processedItems[k].item
        txs == snapshotTransactions
    IN it.isCalculated =>
         processedItems[k].currentSnapshotValue
           = ExpectedFinal(it, OrZero(it.initialValue)
                                 + SumOf([j \in DOMAIN LinksOf(it) |->
                                            ExpectedContribution(it, txs, LinksOf(it)[j], tzWest)],
                                         DOMAIN LinksOf(it)))

\* an asset with the one link {name: 'C', cap: 2} and expenses of 3 in two
\* different months: valued 2, the cap, where monthly buckets would give 4
C22_Witness ==
  /\ Len(snapshotTransactions) = 2
  /\ \A i \in 1..2 : /\ snapshotTransactions[i].type = "expense"
                      /\ snapshotTransactions[i].amount = 3
  /\ snapshotTransactions[1].date = Feb01
  /\ snapshotTransactions[2].date = Jan31
  /\ \E k \in DOMAIN processedItems :
       LET it == processedItems[k].item
       IN /\ it.isCalculated /\ it.type = "asset"
          /\ LinksOf(it) = <<ObjEntry(<<"C">>, Num(2), "undefined")>>
          /\ ~it.initialValue.def /\ ~it.maxValue.def
          /\ processedItems[k].currentSnapshotValue = 2

----------------------------------------------------------------------------
(* C23 *)

\* the step puts the transaction Head(transactions') in front of the ledger
Added ==
  /\ transactions' # <<>>
  /\ transactions' = <<Head(transactions')>> \o transactions
  /\ items' = items

\* every cap of the item is positive or unset (absent or 0), and so is its
\* maxValue
PositiveOrUnset(it) ==
  /\ \A j \in DOMAIN LinksOf(it) :
       Truthy(CapOf(LinksOf(it)[j])) => CapOf(LinksOf(it)[j]).v > 0
  /\ it.maxValue.def => it.maxValue.v >= 0

\* C23: for a calculated item whose caps and maxValue are positive or unset,
\* adding one transaction whose impact by the sign table is positive never
\* lowers the value of the item, and adding one whose impact is negative
\* never raises it, whatever the ledger, the periods and the snapshot.
C23_Monotone ==
  [][Added =>
       \A k \in DOMAIN processedItems :
         LET it == processedItems[k].item
             t == Head(transactions')
             v == processedItems[k].currentSnapshotValue
             vNew == processedItems'[k].currentSnapshotValue
         IN (it.isCalculated /\ PositiveOrUnset(it)) =>
              /\ ExpectedImpact(it.type, t) > 0 => vNew >= v
              /\ ExpectedImpact(it.type, t) < 0 => vNew <= v]_vars

\* a ledger of two transactions of one month and an asset with a monthly
\* link of cap 2: the newer transaction, an income, lowers the bucket from
\* above the cap to below it, and the item is valued less than without it
C23_Witness ==
  /\ Len(snapshotTransactions) = 2
  /\ snapshotTransactions = transactions
  /\ \E k \in DOMAIN processedItems :
       LET it == processedItems[k].item
           t == Head(snapshotTransactions)
       IN /\ it.isCalculated /\ it.type = "asset"
          /\ PositiveOrUnset(it)
          /\ LinksOf(it) = <<ObjEntry(<<"C">>, Num(2), "monthly")>>
          /\ ExpectedImpact(it.type, t) < 0
          /\ processedItems[k].currentSnapshotValue
               < calculateDynamicValue(it, Tail(snapshotTransactions), tzWest)

----------------------------------------------------------------------------
(* The reference calculation of the test suite *)

\* snapshotDate: string = '2099-12-31'
mockDefaultSnapshotDate == <<2099, 12, 31>>

\* transactions.filter(t => t.date <= snapshotDate)
mockSnapshotTransactionsOf(txs, snapshotDate) == filterByCutoff(txs, snapshotDate)

\* snapshotTransactions.filter(t => t.category === catConfig.name)
RECURSIVE mockCatTxsOf(_, _)
mockCatTxsOf(txs, catConfig) ==
  IF txs = <<>> THEN <<>>
  ELSE IF Head(txs).category = catConfig.name
       THEN <<Head(txs)>> \o mockCatTxsOf(Tail(txs), catConfig)
       ELSE mockCatTxsOf(Tail(txs), catConfig)

\* for (const catConfig of categories) { ... }: the body after the filter is
\* the text of the production loop, getTxImpact and getPeriodKey included
RECURSIVE mockCategoryLoop(_, _, _, _, _)
mockCategoryLoop(item, categories, snapTxs, west, runningTotal) ==
  IF categories = <<>> THEN runningTotal
  ELSE LET catConfig == Head(categories)
           catTxs == mockCatTxsOf(snapTxs, catConfig)
       IN mockCategoryLoop(item, Tail(categories), snapTxs, west,
                           runningTotal + categoryContribution(item, catConfig, catTxs, west))

\* the mock calculateDynamicValue(item, transactions, snapshotDate)
mockCalculateDynamicValue(item, txs, snapshotDate, west) ==
  LET snapTxs == mockSnapshotTransactionsOf(txs, snapshotDate)
      runningTotal == mockCategoryLoop(item, normalizeCategories(item), snapTxs, west,
                                       OrZero(item.initialValue))
      capped == IF Truthy(item.maxValue) /\ item.maxValue.v > 0
                THEN Min(runningTotal, item.maxValue.v)
                ELSE runningTotal
  IN Max(0, capped)

----------------------------------------------------------------------------
(* C24 *)

\* the snapshotDate the mock is given for a snapshot: the year-end cutoff of
\* the production filter, or none, which is its default, for 'today'
MockSnapshotDate(snap) == IF snap.today THEN mockDefaultSnapshotDate ELSE Cutoff(snap)

\* the item has no keywords and every ledger category that equals one of its
\* link names up to letter case equals it exactly
ExactCase(it, txs) ==
  /\ it.linkedKeywords = <<>>
  /\ \A i \in DOMAIN txs : \A j \in DOMAIN LinksOf(it) :
       SameIgnoringCase(txs[i].category, LinksOf(it)[j].name)
         => txs[i].category = LinksOf(it)[j].name

\* C24 as stated: for every calculated item without keywords and every ledger
\* whose categories equal the link names in exact case, the mock of the test
\* file, given the year-end cutoff of the snapshot or no cutoff for 'today',
\* returns the value the production calculation returns.
C24_MockAgrees ==
  \A k \in DOMAIN processedItems :
    LET it == processedItems[k].item
    IN (it.isCalculated /\ ExactCase(it, transactions))
       => mockCalculateDynamicValue(it, transactions, MockSnapshotDate(selectedSnapshot), tzWest)
            = processedItems[k].currentSnapshotValue

\* C24 (amended): the same, for the ledgers in which, when the snapshot is
\* 'today', no transaction date compares greater than '2099-12-31', the
\* cutoff the mock applies when it is given none.
C24_MockAgreesUpTo2099 ==
  \A k \in DOMAIN processedItems :
    LET it == processedItems[k].item
    IN ( /\ it.isCalculated
         /\ ExactCase(it, transactions)
         /\ selectedSnapshot.today =>
              \A i \in DOMAIN transactions :
                DateLeq(transactions[i].date, mockDefaultSnapshotDate) )
       => mockCalculateDynamicValue(it, transactions, MockSnapshotDate(selectedSnapshot), tzWest)
            = processedItems[k].currentSnapshotValue

\* a year-end snapshot that drops a transaction with a date past every
\* cutoff, and an item with a capped monthly link valued by the other
\* transaction, which has an empty date, in the mock and in production alike
C24_Witness ==
  /\ ~selectedSnapshot.today
  /\ Len(transactions) = 2
  /\ transactions[1].date = Garbled
  /\ transactions[2].date = <<>>
  /\ transactions[2].type = "expense"
  /\ \E k \in DOMAIN processedItems :
       LET it == processedItems[k].item
       IN /\ it.isCalculated /\ it.type = "asset"
          /\ LinksOf(it) = <<ObjEntry(<<"C">>, Num(2), "monthly")>>
          /\ ~it.initialValue.def
          /\ processedItems[k].currentSnapshotValue = Min(transactions[2].amount, 2)
          /\ mockCalculateDynamicValue(it, transactions, Cutoff(selectedSnapshot), tzWest)
               = Min(transactions[2].amount, 2)

----------------------------------------------------------------------------
(* C25 *)

\* the positions of txs whose transaction has no type
Untyped(txs) == {i \in DOMAIN txs : txs[i].type = "undefined"}

\* C25: a transaction without a type is not ignored by the valuation of an
\* item: it counts -amount for an asset and for a liability alike, so a
\* calculated item with one uncapped lifetime link and no maxValue is valued
\* max(0, initialValue + the impacts of the matching incomes and expenses by
\* the sign table - the amounts of the matching transactions without a
\* type), and no item is valued more than on the ledger without the
\* transactions that have no type; the cash figure is what it is without
\* them.
C25_MissingType ==
  LET txs == snapshotTransactions
      typedOnly == Restricted(txs, DOMAIN txs \ Untyped(txs), 1)
  IN /\ \A k \in DOMAIN processedItems :
          LET it == processedItems[k].item
              v == processedItems[k].currentSnapshotValue
          IN it.isCalculated =>
               /\ v <= calculateDynamicValue(it, typedOnly, tzWest)
               /\ ( /\ Len(LinksOf(it)) = 1
                    /\ UncappedLifetime(LinksOf(it)[1])
                    /\ ~it.maxValue.def )
                  => LET I == InCategory(txs, LinksOf(it)[1].name)
                         typed == I \ Untyped(txs)
                     IN v = Max(0, OrZero(it.initialValue)
                                     + SumOf([i \in typed |-> ExpectedImpact(it.type, txs[i])], typed)
                                     - SumOf([i \in I \ typed |-> txs[i].amount], I \ typed))
     /\ calculatedCash = startingBalance + AmountOf(txs, DOMAIN txs, "income")
                                         - AmountOf(txs, DOMAIN txs, "expense")
     /\ calculatedCash = calculatedCashOf(typedOnly, startingBalance)

\* C25 for the items without a negative cap: the same formula, the
\* comparison with the ledger without the untyped transactions being asked
\* only of the items whose caps are positive or unset
C25_MissingTypeNoNegativeCap ==
  LET txs == snapshotTransactions
      typedOnly == Restricted(txs, DOMAIN txs \ Untyped(txs), 1)
  IN /\ \A k \in DOMAIN processedItems :
          LET it == processedItems[k].item
              v == processedItems[k].currentSnapshotValue
          IN it.isCalculated =>
               /\ (\A j \in DOMAIN LinksOf(it) :
                     Truthy(CapOf(LinksOf(it)[j])) => CapOf(LinksOf(it)[j]).v > 0)
                  => v <= calculateDynamicValue(it, typedOnly, tzWest)
               /\ ( /\ Len(LinksOf(it)) = 1
                    /\ UncappedLifetime(LinksOf(it)[1])
                    /\ ~it.maxValue.def )
                  => LET I == InCategory(txs, LinksOf(it)[1].name)
                         typed == I \ Untyped(txs)
                     IN v = Max(0, OrZero(it.initialValue)
                                     + SumOf([i \in typed |-> ExpectedImpact(it.type, txs[i])], typed)
                                     - SumOf([i \in I \ typed |-> txs[i].amount], I \ typed))
     /\ calculatedCash = startingBalance + AmountOf(txs, DOMAIN txs, "income")
                                         - AmountOf(txs, DOMAIN txs, "expense")
     /\ calculatedCash = calculatedCashOf(typedOnly, startingBalance)

----------------------------------------------------------------------------
(* C26 *)

\* the item has two links or more and their names are equal up to letter case
DuplicateLinks(it) ==
  /\ Len(LinksOf(it)) >= 2
  /\ \A i, j \in DOMAIN LinksOf(it) :
       SameIgnoringCase(LinksOf(it)[i].name, LinksOf(it)[j].name)

\* C26: links are not de-duplicated: an item whose links have the same name up
\* to letter case counts every matching transaction once per link, each link
\* clamped by its own cap and period; without caps the sum of the impacts of
\* the matching transactions counts as many times as there are links.
C26_DuplicateLinksAdd ==
  \A k \in DOMAIN processedItems :
    LET it == processedItems[k].item
        v == processedItems[k].currentSnapshotValue
        txs == snapshotTransactions
        links == LinksOf(it)
    IN (it.isCalculated /\ DuplicateLinks(it)) =>
         /\ v = ExpectedFinal(it,
                  OrZero(it.initialValue)
                    + SumOf([j \in DOMAIN links |->
                               IF Bucketed(links[j])
                               THEN ExpectedBucketed(it, txs, links[j], tzWest)
                               ELSE ExpectedLifetime(it, txs, links[j])],
                            DOMAIN links))
         /\ (\A j \in DOMAIN links : UncappedLifetime(links[j])) =>
              v = ExpectedFinal(it,
                    OrZero(it.initialValue)
                      + (Len(links) * ImpactSum(it, txs, InCategory(txs, links[1].name))))

\* expenses of 3 in January and in February of one year, and two assets: one
\* with the links "C" monthly and "c" yearly, both of cap 2, valued 2 + 2 for
\* the months plus 2 for the year; one with the link "C" twice, valued 12
C26_Witness ==
  /\ Len(snapshotTransactions) = 2
  /\ \A i \in 1..2 : /\ snapshotTransactions[i].type = "expense"
                      /\ snapshotTransactions[i].amount = 3
  /\ snapshotTransactions[1].date = Feb01
  /\ snapshotTransactions[2].date = Jan31
  /\ ~tzWest
  /\ \E k, m \in DOMAIN processedItems :
       LET it == processedItems[k].item
           twice == processedItems[m].item
       IN /\ it.isCalculated /\ it.type = "asset"
          /\ LinksOf(it) = <<ObjEntry(<<"C">>, Num(2), "monthly"),
                             ObjEntry(<<"c">>, Num(2), "yearly")>>
          /\ ~it.initialValue.def /\ ~it.maxValue.def
          /\ processedItems[k].currentSnapshotValue = 6
          /\ twice.isCalculated /\ twice.type = "asset"
          /\ LinksOf(twice) = <<StrEntry(<<"C">>), StrEntry(<<"C">>)>>
          /\ ~twice.initialValue.def /\ ~twice.maxValue.def
          /\ processedItems[m].currentSnapshotValue = 12

----------------------------------------------------------------------------
(* C27 *)

\* the keyword text of the item is not empty and one of its comma-separated
\* pieces is empty or all spaces
HasEmptyEntry(it) ==
  /\ it.linkedKeywords # <<>>
  /\ \E piece \in Pieces(it.linkedKeywords) : Trimmed(piece) = <<>>

\* C27: an item whose keyword text holds an entry that is empty after
\* trimming (after a trailing comma, between two commas, or a text of spaces
\* only) takes every transaction of its linked categories: it is valued as
\* the same item without keywords, that is at the ceiling and floor of its
\* initialValue plus, per link, the impacts of all the snapshot transactions
\* of the link's category.
C27_EmptyKeywordPassesAll ==
  \A k \in DOMAIN processedItems :
    LET it == processedItems[k].item
        v == processedItems[k].currentSnapshotValue
        txs == snapshotTransactions
        links == LinksOf(it)
    IN (it.isCalculated /\ HasEmptyEntry(it)) =>
         /\ v = calculateDynamicValue([it EXCEPT !.linkedKeywords = <<>>], txs, tzWest)
         /\ v = ExpectedFinal(it,
                  OrZero(it.initialValue)
                    + SumOf([j \in DOMAIN links |->
                               ImpactSum(it, txs,
                                 {i \in DOMAIN txs : CaseInsensitiveEqual(txs[i].category, links[j].name)})],
                            DOMAIN links))

\* one expense of category "C" described "x", and four assets with the link
\* "C": the one with the keyword "z" is valued 0, the ones with the texts
\* "z,", "z,,z" and " " are valued the amount of the expense
C27_Witness ==
  /\ Len(snapshotTransactions) = 1
  /\ snapshotTransactions[1].category = <<"C">>
  /\ snapshotTransactions[1].type = "expense"
  /\ snapshotTransactions[1].description = <<"x">>
  /\ \A text \in {<<"z">>, <<"z", ",">>, <<"z", ",", ",", "z">>, <<" ">>} :
       \E k \in DOMAIN processedItems :
         LET it == processedItems[k].item
         IN /\ it.isCalculated /\ it.type = "asset"
            /\ it.linkedKeywords = text
            /\ LinksOf(it) = <<StrEntry(<<"C">>)>>
            /\ processedItems[k].currentSnapshotValue
                 = IF text = <<"z">> THEN 0 ELSE snapshotTransactions[1].amount

----------------------------------------------------------------------------
(* C28 *)

\* C28: in every state the net worth is the sum of the values of the asset
\* items minus the sum of the values of the liability items plus the cash,
\* whatever the sign of the cash: positive cash is part of the assets alone,
\* negative cash is part of the liabilities alone, and the two totals are
\* never both raised by the cash.
C28_NetWorthIdentity ==
  LET assets == ValueSum(OfType("asset"))
      liabilities == ValueSum(OfType("liability"))
  IN /\ netWorth = (assets - liabilities) + ExpectedCash
     /\ ExpectedCash > 0 =>
          /\ totalAssets = assets + ExpectedCash
          /\ totalLiabilities = liabilities
     /\ ExpectedCash < 0 =>
          /\ totalAssets = assets
          /\ totalLiabilities = liabilities - ExpectedCash
     /\ ExpectedCash = 0 =>
          /\ totalAssets = assets
          /\ totalLiabilities = liabilities

\* negative cash beside an asset and a liability of different positive
\* values, and a net worth below zero
C28_Witness ==
  /\ ExpectedCash < 0
  /\ Len(processedItems) = 2
  /\ ValueSum(OfType("asset")) > 0
  /\ ValueSum(OfType("liability")) > 0
  /\ ValueSum(OfType("asset")) # ValueSum(OfType("liability"))
  /\ netWorth < 0
  /\ netWorth = (ValueSum(OfType("asset")) - ValueSum(OfType("liability"))) + ExpectedCash

----------------------------------------------------------------------------
(* The edit form and its link editor *)

\* longest list of links the form is given
MaxLinks == 2

\* the ledger of the editor family: one transaction in each of two
\* categories that differ in letter case only
LedgerEditor ==
  << [date |-> Jan31, amount |-> 3, category |-> <<"C">>, type |-> "expense",
      description |-> <<"b">>],
     [date |-> Jan31, amount |-> 3, category |-> <<"c">>, type |-> "expense",
      description |-> <<"b">>] >>

\* transactions.forEach(t => t.category && cats.add(t.category))
availableCategories == {transactions[i].category : i \in DOMAIN transactions} \ {<<>>}

\* the "add" trigger under the lists
openAddForm ==
  /\ editItem' = emptyEditItem
  /\ isAdding' = TRUE
  /\ UNCHANGED <<transactions, items, selectedSnapshot, tzWest, startingBalance,
                 snapshotTransactions, processedItems>>

startEdit(item) ==
  /\ editItem' = item
  /\ isAdding' = TRUE
  /\ UNCHANGED <<transactions, items, selectedSnapshot, tzWest, startingBalance,
                 snapshotTransactions, processedItems>>

\* the X and Cancel buttons of the form: setIsAdding(false)
closeForm ==
  /\ isAdding' = FALSE
  /\ UNCHANGED <<transactions, items, selectedSnapshot, tzWest, startingBalance,
                 snapshotTransactions, processedItems, editItem>>

\* setEditItem({...editItem, name: e.target.value})
setName(name) ==
  /\ editItem' = [editItem EXCEPT !.name = name]
  /\ UNCHANGED <<transactions, items, selectedSnapshot, tzWest, startingBalance,
                 snapshotTransactions, processedItems, isAdding>>

\* setEditItem({...editItem, isCalculated: b})
setIsCalculated(b) ==
  /\ editItem' = [editItem EXCEPT !.isCalculated = b]
  /\ UNCHANGED <<transactions, items, selectedSnapshot, tzWest, startingBalance,
                 snapshotTransactions, processedItems, isAdding>>

\* setEditItem({...editItem, linkedCategories: current})
setLinkedCategories(current) ==
  /\ editItem' = [editItem EXCEPT !.linkedCategories = current]
  /\ UNCHANGED <<transactions, items, selectedSnapshot, tzWest, startingBalance,
                 snapshotTransactions, processedItems, isAdding>>

\* mutation: addCategoryToItem without the duplicate check
addCategoryToItemUnchecked(cat) ==
  /\ Len(editItem.linkedCategories) < MaxLinks
  /\ setLinkedCategories(Append(editItem.linkedCategories, StrEntry(cat)))

addCategoryToItem(cat) ==
  LET current == editItem.linkedCategories
  IN IF \E i \in DOMAIN current : current[i].name = cat
     THEN UNCHANGED vars
     ELSE /\ Len(current) < MaxLinks
          /\ setLinkedCategories(Append(current, StrEntry(cat)))

\* current.splice(index, 1), index counted from 1
removeCategoryFromItem(index) ==
  LET current == editItem.linkedCategories
  IN setLinkedCategories([j \in 1..(Len(current) - 1) |->
                            IF j < index THEN current[j] ELSE current[j + 1]])

\* parseFloat of the text of a number input: an optional sign and one digit
parseFloat(text) ==
  LET digit(c) == CASE c = "0" -> 0 [] c = "1" -> 1 [] c = "2" -> 2
  IN IF Head(text) = "-" THEN 0 - digit(text[2]) ELSE digit(text[1])

\* the values of the overlay's two inputs: the cap as text (it is empty when
\* no cap was typed) and the period of the <select>
ConfigUpdates ==
  {[cap |-> <<"2">>, period |-> "monthly"]}

\* current[index] = {name, cap: updates.cap ? parseFloat(updates.cap) : undefined,
\*                   period: updates.period}, index counted from 1
updateCategoryConfig(index, updates) ==
  LET current == editItem.linkedCategories
      name == current[index].name
  IN setLinkedCategories(
       [current EXCEPT ![index] =
          ObjEntry(name,
                   IF updates.cap # <<>> THEN Num(parseFloat(updates.cap)) ELSE Undefined,
                   updates.period)])

\* the list saved before: empty, or one calculated item that links one
\* category twice
StoredEditorItems ==
  {<<>>,
   << [id |-> 1, name |-> <<"n">>, value |-> 0, type |-> "asset", isCalculated |-> TRUE,
       initialValue |-> Num(0), maxValue |-> Num(0),
       linkedCategories |-> <<StrEntry(<<"C">>), StrEntry(<<"C">>)>>,
       linkedKeywords |-> <<>>] >>}

EditorNames == {<<>>, <<"n">>}

InitEditor ==
  /\ transactions = LedgerEditor
  /\ items \in StoredEditorItems
  /\ selectedSnapshot = Today
  /\ tzWest = FALSE
  /\ startingBalance = 0
  /\ editItem = emptyEditItem
  /\ isAdding = FALSE
  /\ snapshotTransactions = snapshotTransactionsOf(transactions, selectedSnapshot)
  /\ processedItems = processedItemsOf(items, snapshotTransactions, tzWest)

\* the form covers the lists while it is open, and the link editor is shown
\* for a calculated item only
NextEditor ==
  \/ ~isAdding /\ openAddForm
  \/ \E k \in 1..MaxItems : ~isAdding /\ k \in DOMAIN items /\ startEdit(items[k])
  \/ isAdding /\ closeForm
  \/ \E name \in EditorNames : isAdding /\ setName(name)
  \/ \E b \in BOOLEAN : isAdding /\ setIsCalculated(b)
  \/ \E cat \in availableCategories :
       isAdding /\ editItem.isCalculated /\ addCategoryToItem(cat)
  \/ \E index \in 1..MaxLinks :
       /\ isAdding /\ editItem.isCalculated
       /\ index \in DOMAIN editItem.linkedCategories
       /\ removeCategoryFromItem(index)
  \/ \E index \in 1..MaxLinks, updates \in ConfigUpdates :
       /\ isAdding /\ editItem.isCalculated
       /\ index \in DOMAIN editItem.linkedCategories
       /\ updateCategoryConfig(index, updates)
  \/ isAdding /\ handleSaveItem(editItem.id, editItem)
  \/ \E id \in 1..MaxItems : ~isAdding /\ id \in IdsOf(items) /\ handleRemoveItem(id)

SpecEditor == InitEditor /\ [][NextEditor]_vars

----------------------------------------------------------------------------
(* C29 *)

\* the item that saving the form gives, under the id given
SavedFrom(form, id) ==
  [id |-> id, name |-> form.name, value |-> form.value, type |-> form.type,
   isCalculated |-> form.isCalculated,
   initialValue |-> Num(OrZero(form.initialValue)),
   linkedCategories |-> form.linkedCategories,
   linkedKeywords |-> form.linkedKeywords,
   maxValue |-> Num(OrZero(form.maxValue))]

\* the ids of the list are pairwise distinct
DistinctIds(its) == \A i, j \in DOMAIN its : its[i].id = its[j].id => i = j

\* ys is xs without the items of one id that xs holds, the others in order
RemovedOneId(xs, ys) ==
  \E id \in IdsOf(xs) :
    LET kept == {i \in DOMAIN xs : xs[i].id # id}
    IN ys = Restricted(xs, kept, 1)

\* C29: the item list changes only by a save or a remove.  While the form is
\* open (the rows and their remove buttons are under it) a step with an empty
\* name in the form leaves the list unchanged; a step that changes the list
\* with an id in the form replaces the items of that id by the item built
\* from the form and leaves every other item, the length and the order
\* unchanged; a step that changes the list with no id in the form appends one
\* item, built from the form, whose id no item had.  While the form is closed
\* a step that changes the list removes exactly the items of one id.  The ids
\* of the items are pairwise distinct in every state.
C29_ItemStore ==
  /\ [](DistinctIds(items))
  /\ [][ /\ (isAdding /\ editItem.name = <<>>) => items' = items
         /\ (isAdding /\ items' # items /\ editItem.id # 0) =>
              /\ Len(items') = Len(items)
              /\ \A i \in DOMAIN items :
                   items'[i] = IF items[i].id = editItem.id
                               THEN SavedFrom(editItem, editItem.id)
                               ELSE items[i]
         /\ (isAdding /\ items' # items /\ editItem.id = 0) =>
              /\ Len(items') = Len(items) + 1
              /\ SubSeq(items', 1, Len(items)) = items
              /\ items'[Len(items')].id \notin IdsOf(items)
              /\ items'[Len(items')] = SavedFrom(editItem, items'[Len(items')].id)
         /\ (~isAdding /\ items' # items) => RemovedOneId(items, items')
       ]_vars

\* two items, the first saved from a form without an id and then edited and
\* saved again under its id with a link, the second appended after it
C29_Witness ==
  /\ ~isAdding
  /\ editItem = emptyEditItem
  /\ Len(items) = 2
  /\ items[1].id = 2 /\ items[2].id = 1
  /\ items[1].isCalculated
  /\ items[1].linkedCategories = <<ObjEntry(<<"c">>, Num(2), "monthly")>>
  /\ ~items[2].isCalculated

----------------------------------------------------------------------------
(* C30 *)

\* no two entries of the list have the same name, in exact case
DistinctNames(links) ==
  \A i, j \in DOMAIN links : links[i].name = links[j].name => i = j

\* the step changes the links of the open form and leaves the form open:
\* a step of the link editor
LinkEditorStep ==
  /\ isAdding /\ isAdding'
  /\ editItem'.linkedCategories # editItem.linkedCategories

\* C30: a step of the link editor changes nothing of the form but the list
\* of links, and a list without two entries of one name is followed by such
\* a list.  A step that makes the list longer appends one bare name that no
\* entry had, so adding a name already present changes nothing; a step that
\* keeps the length replaces one entry by a record of the same name and
\* leaves every other entry and the order unchanged; a step that makes the
\* list shorter takes out the entry at one index.
C30_LinkEditor ==
  [][LinkEditorStep =>
       LET links == editItem.linkedCategories
           linksNew == editItem'.linkedCategories
       IN /\ editItem' = [editItem EXCEPT !.linkedCategories = linksNew]
          /\ items' = items
          /\ DistinctNames(links) => DistinctNames(linksNew)
          /\ Len(linksNew) \in {Len(links) - 1, Len(links), Len(links) + 1}
          /\ Len(linksNew) = Len(links) + 1 =>
               /\ SubSeq(linksNew, 1, Len(links)) = links
               /\ linksNew[Len(linksNew)].str
               /\ \A i \in DOMAIN links : links[i].name # linksNew[Len(linksNew)].name
          /\ Len(linksNew) = Len(links) =>
               \E index \in DOMAIN links :
                 /\ linksNew[index].name = links[index].name
                 /\ ~linksNew[index].str
                 /\ \A j \in DOMAIN links : j # index => linksNew[j] = links[j]
          /\ Len(linksNew) = Len(links) - 1 =>
               \E index \in DOMAIN links :
                 \A j \in DOMAIN linksNew :
                   linksNew[j] = IF j < index THEN links[j] ELSE links[j + 1]
    ]_vars

\* the open form of a new item after "C" and "c" were added and the first
\* entry was given a cap of 2 per month
C30_Witness ==
  /\ isAdding
  /\ editItem.id = 0
  /\ editItem.linkedCategories
       = <<ObjEntry(<<"C">>, Num(2), "monthly"), StrEntry(<<"c">>)>>

====
